---- MODULE Spec2Model ----
(***************************************************************************)
(* A model of the TinyOS kernel core of this repository: the bounded pipe  *)
(* (kernel_pipe.c / kernel_pipe.h), the thread and process operations of   *)
(* kernel_proc.c (CreateThread, ThreadJoin, ThreadDetach, ThreadExit,      *)
(* Exec, WaitChild, Exit), the process information stream (OpenInfo) and   *)
(* the sockets of kernel_socket.c.                                         *)
(*                                                                         *)
(* Every system call runs under the single kernel mutex, so the code       *)
(* between two suspension points (kernel_wait) is one atomic step of the   *)
(* thread that runs it.  A call is therefore one action from its entry to  *)
(* its first suspension or its return, and one "resume" action from each   *)
(* wake-up to the next suspension or the return.                           *)
(***************************************************************************)
EXTENDS Integers, Sequences, FiniteSets, TLC

(***************************************************************************)
(* Program constants and the bounds of the model.                          *)
(***************************************************************************)
PIPE_BUFFER_SIZE == 512

\* The null pointer, and the two FCBs a pipe is connected to.
NULL == "NULL"
ReaderFCB == "fcb0"
WriterFCB == "fcb1"

\* One thread writes and one thread reads; the sizes they pass as n.
Threads == {"W", "R"}
WriteSizes == {4, 600, 1100}
ReadSizes == {10, 200, 600}
\* Number of pipe_write / pipe_read calls a run may make.
MaxWrites == 2
MaxReads == 3

\* The k-th byte the writer thread passes to the pipe (a char; bytes that
\* are PIPE_BUFFER_SIZE apart differ).
Data(k) == k % 251


VARIABLES
  pipecb,       \* storage of the pipe_cb: "unallocated", "allocated", "freed"
  reader,       \* pipe->reader
  writer,       \* pipe->writer
  w_position,   \* pipe->w_position
  r_position,   \* pipe->r_position
  w_bytes,      \* pipe->w_bytes
  BUFFER,       \* pipe->BUFFER
  has_space,    \* pipe->has_space: the threads waiting on it
  has_data,     \* pipe->has_data: the threads waiting on it
  thr,          \* per thread: pc, the n of its call, the loop index i (0 between calls), last return value
  sent,         \* bytes of the writer's stream accepted by returned pipe_write calls
  delivered,    \* the bytes pipe_read has copied into the reader's buffers, in order
  wcalls,       \* pipe_write calls made
  rcalls,       \* pipe_read calls made
  pipe_ret      \* last return value of sys_Pipe

pvars == <<pipecb, reader, writer, w_position, r_position, w_bytes, BUFFER,
           has_space, has_data, thr, sent, delivered, wcalls, rcalls,
           pipe_ret>>

\* The process table, the threads of the processes and their PTCBs.
VARIABLES
  PT,           \* the PCB of each pid: pstate, parent (a pid; NOPROC for NULL),
                \* exitval, children_list, exited_list (lists of pids),
                \* child_exit (the threads waiting on it), ptcb_list, thread_count;
                \* gen, the number of processes that have used the PCB
  pcb_freelist, \* head of the free list of PCBs, chained through parent
  process_count,
  ptcb,         \* the PTCB at each heap address: alloc, exited, detached, refcount,
                \* exitval, exit_cv (the threads waiting on it); pcb and gen, the
                \* process it was created in
  tcb,          \* per thread (named by the address of its PTCB): pc; owner, the pid
                \* of its owner_pcb; tid and ptr, the arguments of its suspended
                \* ThreadJoin (ptr: exitval # NULL); wait and cpid, the kind and the
                \* argument of its suspended WaitChild; ret, what its last system
                \* call returned; val, the int that its exitval / status pointer
                \* points to; exitarg, the argument of its ThreadExit
  ncalls        \* thread and process system calls made so far

tvars == <<PT, pcb_freelist, process_count, ptcb, tcb, ncalls>>

\* The sockets, the port map, the connection requests and the pipes of the
\* connections.
VARIABLES
  sock,         \* the socket_cb at each heap address: alloc; open (its FCB is
                \* still reserved, so its fid is legal); refcount (a uint, kept
                \* as the 32-bit pattern read as a signed number); type; port;
                \* queue and req_available of listener_s; peer, read_pipe and
                \* write_pipe of peer_s, which on a listener are the words
                \* of the queue's rlnode
  PORT_MAP,     \* per port, the address of a socket or NIL
  req,          \* the request at each heap address: alloc, admitted, peer,
                \* connected_cv (the threads waiting on it), the words of
                \* queue_node
  pipes,        \* the pipe_cb at each heap address: alloc, reader and writer
                \* (TRUE for an FCB, FALSE for NULL)
  sthr,         \* per thread: pc; op, the call it is suspended in; sock and rq,
                \* the locals socket and req of that call; timed (its
                \* kernel_timedwait has a timeout); ret, what the last Accept
                \* or Connect returned
  scalls        \* socket system calls made so far

svars == <<sock, PORT_MAP, req, pipes, sthr, scalls>>

\* The process information stream (sys_OpenInfo, procinfo_read).
VARIABLES
  info_cb,      \* the procinfo_cb: alloc and pcb_cursor
  info_out,     \* the records that procinfo_read has copied into the caller's
                \* buffers since the stream was opened, in order; slot is the
                \* index of the PCB that was copied (history, not in procinfo)
  info_ret      \* the last call on the stream and what it returned

ivars == <<info_cb, info_out, info_ret>>

vars == <<pvars, tvars, svars, ivars>>

(***************************************************************************)
(* Condition variables (kernel_cc): a CondVar is the set of threads        *)
(* sleeping on it.  kernel_wait adds the caller and suspends it;           *)
(* kernel_broadcast makes every sleeper ready and empties the set.         *)
(***************************************************************************)
kernel_broadcast(cv, th) ==
  [t \in DOMAIN th |-> IF t \in cv THEN [th[t] EXCEPT !.pc = "ready"] ELSE th[t]]

kernel_wait(cv, t) == cv \cup {t}

(***************************************************************************)
(* sys_Pipe                                                                *)
(***************************************************************************)
InitPipe ==
  /\ pipecb = "unallocated"
  /\ reader = NULL
  /\ writer = NULL
  /\ w_position = 0
  /\ r_position = 0
  /\ w_bytes = 0
  /\ BUFFER = [j \in 0..(PIPE_BUFFER_SIZE - 1) |-> 0]
  /\ has_space = {}
  /\ has_data = {}
  /\ thr = [t \in Threads |-> [pc |-> "idle", n |-> 0, i |-> 0, ret |-> 0]]
  /\ sent = 0
  /\ delivered = <<>>
  /\ wcalls = 0
  /\ rcalls = 0
  /\ pipe_ret = 0

\* FCB_reserve succeeds (retval # 0) or not; on success the pipe_cb is
\* allocated, initialised and connected to the two FCBs.
sys_Pipe(retval) ==
  /\ UNCHANGED <<tvars, svars, ivars>>
  /\ pipecb = "unallocated"
  /\ IF retval = 0
       THEN /\ pipe_ret' = -1
            /\ UNCHANGED <<pipecb, reader, writer, has_space, has_data,
                           w_position, r_position, w_bytes>>
       ELSE /\ pipecb' = "allocated"
            /\ has_space' = {}
            /\ has_data' = {}
            /\ w_position' = 0
            /\ r_position' = 0
            /\ w_bytes' = 0
            /\ reader' = ReaderFCB
            /\ writer' = WriterFCB
            /\ pipe_ret' = 0
  /\ UNCHANGED <<BUFFER, thr, sent, delivered, wcalls, rcalls>>

(***************************************************************************)
(* pipe_write.  The for loop copies one byte per iteration and suspends    *)
(* in front of an iteration while the reader is open and                   *)
(* w_bytes = PIPE_BUFFER_SIZE.  WriteRun(i, n) is the number of iterations *)
(* the loop runs from index i before it suspends or ends.                  *)
(***************************************************************************)
WriteBlocked(wb) == reader # NULL /\ wb = PIPE_BUFFER_SIZE

Least(S) == CHOOSE d \in S : \A e \in S : d <= e

\* A pipe_write whose loop never suspends on a full buffer.
WriteRunNeverSuspends(i, n) == n - i

\* The loop leaves after n - i iterations, or suspends in front of the first
\* iteration that finds the buffer full with the reader open.
WriteRun(i, n) ==
  Least({d \in 0..(n - i) : d = n - i \/ WriteBlocked(w_bytes + d)})

\* The buffer after k iterations that started at loop index i.  Iteration d
\* (0 <= d < k) stores buf[i + d] in slot (w_position + d) % PIPE_BUFFER_SIZE,
\* so slot j keeps the byte of the last iteration that is congruent to
\* j - w_position; buf is the writer's stream from offset sent.
WriteBuffer(i, k) ==
  [j \in 0..(PIPE_BUFFER_SIZE - 1) |->
     LET off == (j - w_position) % PIPE_BUFFER_SIZE
         last == off + PIPE_BUFFER_SIZE * ((k - 1 - off) \div PIPE_BUFFER_SIZE)
     IN  IF off >= k THEN BUFFER[j] ELSE Data(sent + i + last)]

\* The loop of pipe_write from index i, up to its suspension or its return.
write_loop(t, i, n) ==
  LET k == WriteRun(i, n) IN
  /\ BUFFER' = WriteBuffer(i, k)
  /\ w_position' = (w_position + k) % PIPE_BUFFER_SIZE
  /\ w_bytes' = w_bytes + k
  /\ IF i + k < n
       THEN \* buffer full, reader open: broadcast has_data, wait on has_space
            /\ thr' = [kernel_broadcast(has_data, thr) EXCEPT
                         ![t] = [pc |-> "waiting", n |-> n, i |-> i + k, ret |-> thr[t].ret]]
            /\ has_data' = {}
            /\ has_space' = kernel_wait(has_space, t)
            /\ UNCHANGED sent
       ELSE \* all n bytes copied: broadcast has_data, return i
            /\ thr' = [kernel_broadcast(has_data, thr) EXCEPT
                         ![t] = [pc |-> "idle", n |-> n, i |-> 0, ret |-> n]]
            /\ has_data' = {}
            /\ sent' = sent + n
            /\ UNCHANGED has_space
  /\ UNCHANGED <<pipecb, reader, writer, r_position, delivered, pipe_ret>>

pipe_write(t, n) ==
  /\ UNCHANGED <<tvars, svars, ivars>>
  /\ t = "W"
  /\ pipecb = "allocated"
  /\ thr[t].pc = "idle"
  /\ wcalls < MaxWrites
  /\ wcalls' = wcalls + 1
  /\ UNCHANGED rcalls
  /\ IF reader = NULL \/ writer = NULL
       THEN /\ thr' = [thr EXCEPT ![t] = [pc |-> "idle", n |-> n, i |-> 0, ret |-> -1]]
            /\ UNCHANGED <<pipecb, reader, writer, w_position, r_position, w_bytes,
                           BUFFER, has_space, has_data, sent, delivered, pipe_ret>>
       ELSE write_loop(t, 0, n)

\* The writer wakes up in kernel_wait and goes on with the while loop.
pipe_write_resume(t) ==
  /\ UNCHANGED <<tvars, svars, ivars>>
  /\ t = "W"
  /\ thr[t].pc = "ready"
  /\ UNCHANGED <<wcalls, rcalls>>
  /\ write_loop(t, thr[t].i, thr[t].n)

(***************************************************************************)
(* pipe_read.  The for loop copies one byte per iteration; in front of an  *)
(* iteration it suspends while the writer is open and w_bytes = 0, and     *)
(* returns i when the writer is closed and w_bytes = 0.                    *)
(***************************************************************************)
\* The loop leaves after n - i iterations, or stops in front of the first
\* iteration that finds w_bytes = 0.
ReadRun(i, n) ==
  Least({d \in 0..(n - i) : d = n - i \/ w_bytes - d = 0})

\* The bytes k iterations copy into buf, in order.
ReadBytes(k) ==
  [d \in 1..k |-> BUFFER[(r_position + d - 1) % PIPE_BUFFER_SIZE]]

\* A pipe_read loop that suspends on the empty buffer without the broadcast
\* of has_space in front of kernel_wait.
read_loop_silent_wait(t, i, n) ==
  LET k == ReadRun(i, n) IN
  /\ delivered' = delivered \o ReadBytes(k)
  /\ r_position' = (r_position + k) % PIPE_BUFFER_SIZE
  /\ w_bytes' = w_bytes - k
  /\ IF i + k = n
       THEN /\ thr' = [kernel_broadcast(has_space, thr) EXCEPT
                         ![t] = [pc |-> "idle", n |-> n, i |-> 0, ret |-> n]]
            /\ has_space' = {}
            /\ UNCHANGED has_data
       ELSE IF writer # NULL
       THEN /\ thr' = [thr EXCEPT
                         ![t] = [pc |-> "waiting", n |-> n, i |-> i + k, ret |-> thr[t].ret]]
            /\ has_data' = kernel_wait(has_data, t)
            /\ UNCHANGED has_space
       ELSE /\ thr' = [thr EXCEPT
                         ![t] = [pc |-> "idle", n |-> n, i |-> 0, ret |-> i + k]]
            /\ UNCHANGED <<has_space, has_data>>
  /\ UNCHANGED <<pipecb, reader, writer, w_position, BUFFER, sent, pipe_ret>>

\* The loop of pipe_read from index i, up to its suspension or its return.
read_loop(t, i, n) ==
  LET k == ReadRun(i, n) IN
  /\ delivered' = delivered \o ReadBytes(k)
  /\ r_position' = (r_position + k) % PIPE_BUFFER_SIZE
  /\ w_bytes' = w_bytes - k
  /\ IF i + k = n
       THEN \* n bytes copied: broadcast has_space, return i
            /\ thr' = [kernel_broadcast(has_space, thr) EXCEPT
                         ![t] = [pc |-> "idle", n |-> n, i |-> 0, ret |-> n]]
            /\ has_space' = {}
            /\ UNCHANGED has_data
       ELSE IF writer # NULL
       THEN \* buffer empty, writer open: broadcast has_space, wait on has_data
            /\ thr' = [kernel_broadcast(has_space, thr) EXCEPT
                         ![t] = [pc |-> "waiting", n |-> n, i |-> i + k, ret |-> thr[t].ret]]
            /\ has_space' = {}
            /\ has_data' = kernel_wait(has_data, t)
       ELSE \* buffer empty, writer closed: return i
            /\ thr' = [thr EXCEPT
                         ![t] = [pc |-> "idle", n |-> n, i |-> 0, ret |-> i + k]]
            /\ UNCHANGED <<has_space, has_data>>
  /\ UNCHANGED <<pipecb, reader, writer, w_position, BUFFER, sent, pipe_ret>>

pipe_read(t, n) ==
  /\ UNCHANGED <<tvars, svars, ivars>>
  /\ t = "R"
  /\ pipecb = "allocated"
  /\ thr[t].pc = "idle"
  /\ rcalls < MaxReads
  /\ rcalls' = rcalls + 1
  /\ UNCHANGED wcalls
  /\ IF reader = NULL
       THEN /\ thr' = [thr EXCEPT ![t] = [pc |-> "idle", n |-> n, i |-> 0, ret |-> -1]]
            /\ UNCHANGED <<pipecb, reader, writer, w_position, r_position, w_bytes,
                           BUFFER, has_space, has_data, sent, delivered, pipe_ret>>
       ELSE IF writer = NULL /\ r_position = w_position
       THEN /\ thr' = [thr EXCEPT ![t] = [pc |-> "idle", n |-> n, i |-> 0, ret |-> 0]]
            /\ UNCHANGED <<pipecb, reader, writer, w_position, r_position, w_bytes,
                           BUFFER, has_space, has_data, sent, delivered, pipe_ret>>
       ELSE read_loop(t, 0, n)

\* The reader wakes up in kernel_wait and goes on with the while loop.
pipe_read_resume(t) ==
  /\ UNCHANGED <<tvars, svars, ivars>>
  /\ t = "R"
  /\ thr[t].pc = "ready"
  /\ UNCHANGED <<wcalls, rcalls>>
  /\ read_loop(t, thr[t].i, thr[t].n)

(***************************************************************************)
(* pipe_writer_close / pipe_reader_close: clear the slot; nothing is       *)
(* broadcast and nothing is freed.                                         *)
(***************************************************************************)
pipe_writer_close ==
  /\ UNCHANGED <<tvars, svars, ivars>>
  /\ pipecb = "allocated"
  /\ IF writer = NULL
       THEN UNCHANGED writer    \* already closed: return -1
       ELSE writer' = NULL      \* return 0
  /\ UNCHANGED <<pipecb, reader, w_position, r_position, w_bytes, BUFFER,
                 has_space, has_data, thr, sent, delivered, wcalls, rcalls, pipe_ret>>

pipe_reader_close ==
  /\ UNCHANGED <<tvars, svars, ivars>>
  /\ pipecb = "allocated"
  /\ IF reader = NULL
       THEN UNCHANGED reader    \* already closed: return -1
       ELSE reader' = NULL      \* return 0
  /\ UNCHANGED <<pipecb, writer, w_position, r_position, w_bytes, BUFFER,
                 has_space, has_data, thr, sent, delivered, wcalls, rcalls, pipe_ret>>

(***************************************************************************)
(* Processes and threads.  A PCB pointer is modelled by the pid of the PCB *)
(* (get_pid), NULL by NOPROC.  A thread id is the address of the thread's  *)
(* PTCB; xmalloc returns any heap address that is not allocated (a freed   *)
(* address may be handed out again).  An intrusive list is the sequence of *)
(* the objects of its nodes.                                               *)
(***************************************************************************)
NOTHREAD == 0
NOPROC == -1
\* Size of the process table.
MAX_PROC == 4
\* Number of heap addresses a PTCB can have, and number of system calls a run
\* may make, in the thread specification and in the process specification.
MaxThreads == 3
MaxCalls == 5
MaxProcThreads == 5
MaxProcCalls == 7
Tids == 1..MaxThreads
ProcTids == 1..MaxProcThreads
Pids == 0..(MAX_PROC - 1)
ExitVals == {7, 42}

\* The heap addresses of the run.
Heap == DOMAIN ptcb

\* A PCB slot is used by one process after another; gen counts the processes
\* that have used it.  A PTCB records the process it was created in (pcb,
\* gen).  These fields are history: no operation reads them.
initialize_PTCB ==
  [alloc |-> "live", exitval |-> 0, exited |-> 0, detached |-> 0,
   refcount |-> 0, exit_cv |-> {}, pcb |-> NOPROC, gen |-> 0]

\* The PTCB created for a thread of process pcb in kernel state k.
new_PTCB(k, pcb) ==
  [initialize_PTCB EXCEPT !.pcb = pcb, !.gen = k.PT[pcb].gen]

NoTCB ==
  [pc |-> "none", owner |-> NOPROC, tid |-> NOTHREAD, ptr |-> FALSE,
   wait |-> "none", cpid |-> NOPROC, ret |-> 0, val |-> 0, exitarg |-> 0]

\* A thread of process pcb that was just spawned and woken up.
spawn_thread(pcb) == [NoTCB EXCEPT !.pc = "running", !.owner = pcb]

\* The process of the current thread c.
CURPROC(c) == tcb[c].owner

\* rlist_find: the key is the object of some node of the list.
rlist_find(list, key) == \E k \in 1..Len(list) : list[k] = key
\* rlist_remove unlinks the node from the list it is in (a node that is in no
\* list stays alone).
rlist_remove(list, node) == SelectSeq(list, LAMBDA x : x # node)
rlist_push_back(list, node) == Append(list, node)
rlist_push_front(list, node) == <<node>> \o list
is_rlist_empty(list) == list = <<>>

\* The kernel state the process operations work on.
Kernel ==
  [PT |-> PT, pcb_freelist |-> pcb_freelist, process_count |-> process_count,
   ptcb |-> ptcb, tcb |-> tcb]

initialize_PCB ==
  [pstate |-> "FREE", parent |-> NOPROC, exitval |-> 0,
   children_list |-> <<>>, exited_list |-> <<>>, child_exit |-> {},
   ptcb_list |-> <<>>, thread_count |-> 0, gen |-> 0]

get_pcb(pt, pid) == IF pt[pid].pstate = "FREE" THEN NOPROC ELSE pid

\* acquire_PCB: the PCB taken from the free list (NOPROC if it is empty) and
\* the kernel state after it.
acquire_PCB(k) ==
  IF k.pcb_freelist # NOPROC
    THEN [pcb |-> k.pcb_freelist,
          k |-> [k EXCEPT !.PT[k.pcb_freelist].pstate = "ALIVE",
                          !.PT[k.pcb_freelist].gen = @ + 1,
                          !.pcb_freelist = k.PT[k.pcb_freelist].parent,
                          !.process_count = @ + 1]]
    ELSE [pcb |-> NOPROC, k |-> k]

release_PCB(k, pcb) ==
  [k EXCEPT !.PT[pcb].pstate = "FREE",
            !.PT[pcb].parent = k.pcb_freelist,
            !.pcb_freelist = pcb,
            !.process_count = @ - 1]

\* sys_Exec called by a thread of process curproc; a is the address xmalloc
\* returns for the PTCB of the main thread.  The pid returned and the kernel
\* state after the call.
Exec(k, curproc, call, a) ==
  LET acq == acquire_PCB(k)
      newproc == acq.pcb
      k1 == IF newproc <= 1
              THEN [acq.k EXCEPT !.PT[newproc].parent = NOPROC]
              ELSE [acq.k EXCEPT
                      !.PT[newproc].parent = curproc,
                      !.PT[curproc].children_list = rlist_push_front(@, newproc)]
      k2 == IF call # NULL
              THEN [k1 EXCEPT
                      !.tcb[a] = spawn_thread(newproc),
                      !.ptcb[a] = new_PTCB(k1, newproc),
                      !.PT[newproc].ptcb_list = rlist_push_back(@, a),
                      !.PT[newproc].thread_count = @ + 1]
              ELSE k1
  IN  IF newproc = NOPROC THEN [pid |-> NOPROC, k |-> k]
      ELSE [pid |-> newproc, k |-> k2]

\* initialize_processes: every PCB initialised and chained in the free list
\* in pid order, then the idle process is executed with no task.
initialize_processes(heap) ==
  LET k0 == [PT |-> [p \in Pids |->
                       [initialize_PCB EXCEPT
                          !.parent = IF p + 1 < MAX_PROC THEN p + 1 ELSE NOPROC]],
             pcb_freelist |-> 0,
             process_count |-> 0,
             ptcb |-> [a \in heap |-> [initialize_PTCB EXCEPT !.alloc = "none"]],
             tcb |-> [a \in heap |-> NoTCB]]
  IN  Exec(k0, NOPROC, NULL, NOTHREAD).k

\* The kernel after boot: the idle process (pid 0) and the init process
\* (pid 1), whose main thread has the PTCB at address 1.
InitKernel(heap) ==
  LET k == Exec(initialize_processes(heap), 0, "task", 1).k IN
  /\ PT = k.PT
  /\ pcb_freelist = k.pcb_freelist
  /\ process_count = k.process_count
  /\ ptcb = k.ptcb
  /\ tcb = k.tcb
  /\ ncalls = 0

InitThreads == InitKernel(Tids)

sys_ThreadSelf(c) == c

\* a is the address xmalloc returns for the PTCB.
sys_CreateThread(c, task, a) ==
  /\ UNCHANGED <<pvars, svars, ivars>>
  /\ tcb[c].pc = "running"
  /\ ptcb[a].alloc # "live"
  /\ ncalls' = ncalls + 1
  /\ UNCHANGED <<pcb_freelist, process_count>>
  /\ IF task = NULL
       THEN UNCHANGED <<PT, ptcb, tcb>>    \* return NOTHREAD
       ELSE /\ ptcb' = [ptcb EXCEPT ![a] = new_PTCB(Kernel, CURPROC(c))]
            /\ tcb' = [tcb EXCEPT ![a] = spawn_thread(CURPROC(c))]
            /\ PT' = [PT EXCEPT
                        ![CURPROC(c)].ptcb_list = rlist_push_back(@, a),
                        ![CURPROC(c)].thread_count = @ + 1]

\* A joiner that is not let through without waiting.
JoinNeverWaits(p) == FALSE

\* The condition of the wait loop of sys_ThreadJoin.
JoinMustWait(p) == p.exited = 0 /\ p.detached = 0

\* A join that destroys the PTCB whatever its refcount.
JoinDestroysAlways(p) == TRUE

\* The condition under which sys_ThreadJoin unlinks and frees the PTCB.
JoinDestroys(p) == p.refcount = 0

\* A join that publishes the exit value of a detached thread.
JoinNeverFails(p) == FALSE

\* The test of sys_ThreadJoin after its wait loop: the thread was detached.
JoinFails(p) == p.detached = 1

\* The thread c with its system call returned.
Returned(th, c) ==
  [th EXCEPT ![c].pc = "running", ![c].tid = NOTHREAD, ![c].ptr = FALSE,
             ![c].wait = "none", ![c].cpid = NOPROC]

\* sys_ThreadJoin after its wait loop, with the PTCBs as in pt.
join_finish(c, tid, ptr, pt) ==
  LET p2 == [pt EXCEPT ![tid].refcount = @ - 1] IN
  IF JoinFails(p2[tid])
    THEN /\ ptcb' = p2
         /\ tcb' = [Returned(tcb, c) EXCEPT ![c].ret = -1]
         /\ UNCHANGED PT
    ELSE /\ tcb' = [Returned(tcb, c) EXCEPT
                      ![c].ret = 0,
                      ![c].val = IF ptr THEN p2[tid].exitval ELSE @]
         /\ IF JoinDestroys(p2[tid])
              THEN /\ PT' = [q \in Pids |->
                               [PT[q] EXCEPT !.ptcb_list = rlist_remove(@, tid)]]
                   /\ ptcb' = [p2 EXCEPT ![tid].alloc = "freed"]
              ELSE /\ ptcb' = p2
                   /\ UNCHANGED PT

\* kernel_wait(&ptcb->exit_cv) in the loop of sys_ThreadJoin.
join_wait(c, tid, ptr, pt) ==
  /\ ptcb' = [pt EXCEPT ![tid].exit_cv = kernel_wait(@, c)]
  /\ tcb' = [tcb EXCEPT ![c].pc = "waiting", ![c].tid = tid, ![c].ptr = ptr]
  /\ UNCHANGED PT

sys_ThreadJoin(c, tid, ptr) ==
  /\ UNCHANGED <<pvars, svars, ivars>>
  /\ tcb[c].pc = "running"
  /\ ncalls' = ncalls + 1
  /\ UNCHANGED <<pcb_freelist, process_count>>
  /\ IF tid = NOTHREAD
       THEN /\ tcb' = [tcb EXCEPT ![c].ret = -1]
            /\ UNCHANGED <<ptcb, PT>>
       ELSE IF \/ ~rlist_find(PT[CURPROC(c)].ptcb_list, tid)
               \/ tid = sys_ThreadSelf(c)
               \/ ptcb[tid].detached = 1
       THEN /\ tcb' = [tcb EXCEPT ![c].ret = -1]
            /\ UNCHANGED <<ptcb, PT>>
       ELSE LET p1 == [ptcb EXCEPT ![tid].refcount = @ + 1] IN
            IF JoinMustWait(p1[tid])
              THEN join_wait(c, tid, ptr, p1)
              ELSE join_finish(c, tid, ptr, p1)

\* The joiner wakes up in kernel_wait and tests the loop condition again.
sys_ThreadJoin_resume(c) ==
  /\ UNCHANGED <<pvars, svars, ivars>>
  /\ tcb[c].pc = "ready"
  /\ tcb[c].tid # NOTHREAD
  /\ UNCHANGED <<pcb_freelist, process_count, ncalls>>
  /\ IF JoinMustWait(ptcb[tcb[c].tid])
       THEN join_wait(c, tcb[c].tid, tcb[c].ptr, ptcb)
       ELSE join_finish(c, tcb[c].tid, tcb[c].ptr, ptcb)

sys_ThreadDetach(c, tid) ==
  /\ UNCHANGED <<pvars, svars, ivars>>
  /\ tcb[c].pc = "running"
  /\ ncalls' = ncalls + 1
  /\ UNCHANGED <<PT, pcb_freelist, process_count>>
  /\ IF tid = NOTHREAD
       THEN UNCHANGED <<ptcb, tcb>>    \* return -1
       ELSE IF ~rlist_find(PT[CURPROC(c)].ptcb_list, tid) \/ ptcb[tid].exited = 1
       THEN UNCHANGED <<ptcb, tcb>>    \* return -1
       ELSE /\ ptcb' = [ptcb EXCEPT ![tid].detached = 1, ![tid].exit_cv = {}]
            /\ tcb' = kernel_broadcast(ptcb[tid].exit_cv, tcb)    \* return 0

\* a is the address xmalloc returns for the PTCB of the main thread.
sys_Exec(c, call, a) ==
  /\ UNCHANGED <<pvars, svars, ivars>>
  /\ tcb[c].pc = "running"
  /\ ptcb[a].alloc # "live"
  /\ ncalls' = ncalls + 1
  /\ LET r == Exec(Kernel, CURPROC(c), call, a) IN
     /\ PT' = r.k.PT
     /\ pcb_freelist' = r.k.pcb_freelist
     /\ process_count' = r.k.process_count
     /\ ptcb' = r.k.ptcb
     /\ tcb' = [r.k.tcb EXCEPT ![c].ret = r.pid]

\* cleanup_zombie without the store to *status: both nodes of the PCB are
\* unlinked from the lists they are in and the PCB is released.
cleanup_zombie(k, pcb) ==
  release_PCB(
    [k EXCEPT !.PT = [q \in Pids |->
                        [k.PT[q] EXCEPT
                           !.children_list = rlist_remove(@, pcb),
                           !.exited_list = rlist_remove(@, pcb)]]],
    pcb)

\* The kernel state k is installed, with thread c returning ret and storing
\* val through its status pointer if it has one.
WaitReturns(k, c, ret, ptr, val) ==
  /\ PT' = k.PT
  /\ pcb_freelist' = k.pcb_freelist
  /\ process_count' = k.process_count
  /\ tcb' = [Returned(k.tcb, c) EXCEPT
               ![c].ret = ret, ![c].val = IF ptr THEN val ELSE @]
  /\ UNCHANGED ptcb

\* kernel_wait(&parent->child_exit) inside sys_WaitChild.
WaitSuspends(c, kind, cpid, ptr) ==
  /\ PT' = [PT EXCEPT ![CURPROC(c)].child_exit = kernel_wait(@, c)]
  /\ tcb' = [tcb EXCEPT ![c].pc = "waiting", ![c].wait = kind,
                        ![c].cpid = cpid, ![c].ptr = ptr]
  /\ UNCHANGED <<pcb_freelist, process_count, ptcb>>

\* wait_for_specific_child from its wait loop on; child is the PCB of cpid.
wait_for_specific_loop(c, cpid, ptr) ==
  IF PT[cpid].pstate = "ALIVE"
    THEN WaitSuspends(c, "specific", cpid, ptr)
    ELSE WaitReturns(cleanup_zombie(Kernel, cpid), c, cpid, ptr, PT[cpid].exitval)

wait_for_specific_child(c, cpid, ptr) ==
  IF cpid < 0 \/ cpid >= MAX_PROC
    THEN WaitReturns(Kernel, c, NOPROC, FALSE, 0)
  ELSE IF get_pcb(PT, cpid) = NOPROC \/ PT[cpid].parent # CURPROC(c)
    THEN WaitReturns(Kernel, c, NOPROC, FALSE, 0)
  ELSE wait_for_specific_loop(c, cpid, ptr)

\* An assert of the process code fails on kernel state k: the kernel is
\* aborted in the system call of thread c.
AssertFails(k, c) ==
  /\ PT' = k.PT
  /\ pcb_freelist' = k.pcb_freelist
  /\ process_count' = k.process_count
  /\ ptcb' = k.ptcb
  /\ tcb' = [k.tcb EXCEPT ![c].pc = "abort"]

\* wait_for_any_child from the top of its loop.
wait_for_any_child(c, ptr) ==
  LET parent == PT[CURPROC(c)] IN
  IF is_rlist_empty(parent.children_list)
    THEN WaitReturns(Kernel, c, NOPROC, FALSE, 0)
  ELSE IF ~is_rlist_empty(parent.exited_list)
    THEN LET child == Head(parent.exited_list) IN
         IF PT[child].pstate = "ZOMBIE"    \* assert
           THEN WaitReturns(cleanup_zombie(Kernel, child), c, child, ptr,
                            PT[child].exitval)
           ELSE AssertFails(Kernel, c)
  ELSE WaitSuspends(c, "any", NOPROC, ptr)

sys_WaitChild(c, cpid, ptr) ==
  /\ UNCHANGED <<pvars, svars, ivars>>
  /\ tcb[c].pc = "running"
  /\ ncalls' = ncalls + 1
  /\ IF cpid # NOPROC
       THEN wait_for_specific_child(c, cpid, ptr)
       ELSE wait_for_any_child(c, ptr)

\* The waiter wakes up in kernel_wait and goes on with its loop.
sys_WaitChild_resume(c) ==
  /\ UNCHANGED <<pvars, svars, ivars>>
  /\ tcb[c].pc = "ready"
  /\ tcb[c].wait \in {"specific", "any"}
  /\ UNCHANGED ncalls
  /\ IF tcb[c].wait = "specific"
       THEN wait_for_specific_loop(c, tcb[c].cpid, tcb[c].ptr)
       ELSE wait_for_any_child(c, tcb[c].ptr)

Reverse(s) == [j \in 1..Len(s) |-> s[Len(s) + 1 - j]]

\* The end of sys_ThreadExit on kernel state k: the PTCB of the current
\* thread is marked exited, its joiners are woken and the thread sleeps as
\* EXITED.
exit_finish(k, c, exitval) ==
  /\ PT' = k.PT
  /\ pcb_freelist' = k.pcb_freelist
  /\ process_count' = k.process_count
  /\ ptcb' = [k.ptcb EXCEPT ![sys_ThreadSelf(c)].exited = 1,
                            ![sys_ThreadSelf(c)].exitval = exitval,
                            ![sys_ThreadSelf(c)].exit_cv = {}]
  /\ tcb' = [kernel_broadcast(k.ptcb[sys_ThreadSelf(c)].exit_cv, k.tcb) EXCEPT
               ![c] = [NoTCB EXCEPT !.pc = "exited", !.exitarg = exitval]]

\* The children of curproc are moved to the front of the children list of
\* init one by one, its exited list is appended to the exited list of init
\* (whose waiters are woken if it is not empty), and curproc is pushed on the
\* exited list of its parent, whose waiters are woken.
reparent(k, curproc) ==
  LET ch == k.PT[curproc].children_list
      ex == k.PT[curproc].exited_list
      pt1 == [q \in Pids |->
                IF q = 1
                  THEN [k.PT[q] EXCEPT
                          !.children_list = Reverse(ch) \o @,
                          !.exited_list = @ \o ex,
                          !.child_exit = IF is_rlist_empty(ex) THEN @ ELSE {}]
                ELSE IF q = curproc
                  THEN [k.PT[q] EXCEPT !.children_list = <<>>, !.exited_list = <<>>]
                ELSE k.PT[q]]
      pt2 == [q \in Pids |->
                IF rlist_find(ch, q) THEN [pt1[q] EXCEPT !.parent = 1] ELSE pt1[q]]
      tcb1 == IF is_rlist_empty(ex) THEN k.tcb
              ELSE kernel_broadcast(k.PT[1].child_exit, k.tcb)
      parent == pt2[curproc].parent
  IN  [k EXCEPT
         !.PT = [pt2 EXCEPT ![parent].exited_list = rlist_push_front(@, curproc),
                            ![parent].child_exit = {}],
         !.tcb = kernel_broadcast(pt2[parent].child_exit, tcb1)]

\* The calls sys_WaitChild(NOPROC, NULL) of the exiting init process that
\* return without suspending: each reaps the first exited child.
RECURSIVE reap_exited(_, _)
reap_exited(k, curproc) ==
  IF \/ is_rlist_empty(k.PT[curproc].children_list)
     \/ is_rlist_empty(k.PT[curproc].exited_list)
     \/ k.PT[Head(k.PT[curproc].exited_list)].pstate # "ZOMBIE"
    THEN k
    ELSE reap_exited(cleanup_zombie(k, Head(k.PT[curproc].exited_list)), curproc)

\* The loop of the init process in sys_ThreadExit: it ends when init has no
\* children, and suspends in sys_WaitChild when no child of init has exited.
\* The assert of wait_for_any_child fails if the first exited child is not
\* ZOMBIE, and the assert after the loop if the exited list is not empty.
drain_children(k, c, exitval) ==
  LET k1 == reap_exited(k, CURPROC(c)) IN
  IF is_rlist_empty(k1.PT[CURPROC(c)].children_list)
    THEN IF is_rlist_empty(k1.PT[CURPROC(c)].exited_list)    \* assert
           THEN exit_finish([k1 EXCEPT !.PT[CURPROC(c)].pstate = "ZOMBIE"],
                            c, exitval)
           ELSE AssertFails(k1, c)
  ELSE IF ~is_rlist_empty(k1.PT[CURPROC(c)].exited_list)
    THEN AssertFails(k1, c)
    ELSE /\ PT' = [k1.PT EXCEPT ![CURPROC(c)].child_exit = kernel_wait(@, c)]
         /\ pcb_freelist' = k1.pcb_freelist
         /\ process_count' = k1.process_count
         /\ ptcb' = k1.ptcb
         /\ tcb' = [k1.tcb EXCEPT ![c].pc = "waiting", ![c].wait = "drain",
                                  ![c].exitarg = exitval]

\* sys_ThreadExit on kernel state k.
ThreadExit(k, c, exitval) ==
  LET curproc == CURPROC(c)
      k1 == [k EXCEPT !.PT[curproc].thread_count = @ - 1]
  IN  IF k1.PT[curproc].thread_count = 0
        THEN IF curproc = 1
               THEN drain_children(k1, c, exitval)
               ELSE /\ k1.PT[curproc].parent # NOPROC
                    /\ exit_finish(
                         [reparent(k1, curproc) EXCEPT !.PT[curproc].pstate = "ZOMBIE"],
                         c, exitval)
        ELSE exit_finish(k1, c, exitval)

sys_ThreadExit(c, exitval) ==
  /\ UNCHANGED <<pvars, svars, ivars>>
  /\ tcb[c].pc = "running"
  /\ ncalls' = ncalls + 1
  /\ ThreadExit(Kernel, c, exitval)

\* The exiting init process wakes up in sys_WaitChild and goes on draining.
sys_ThreadExit_resume(c) ==
  /\ UNCHANGED <<pvars, svars, ivars>>
  /\ tcb[c].pc = "ready"
  /\ tcb[c].wait = "drain"
  /\ UNCHANGED ncalls
  /\ drain_children(Kernel, c, tcb[c].exitarg)

sys_Exit(c, exitval) ==
  /\ UNCHANGED <<pvars, svars, ivars>>
  /\ tcb[c].pc = "running"
  /\ ncalls' = ncalls + 1
  /\ ThreadExit([Kernel EXCEPT !.PT[CURPROC(c)].exitval = exitval], c, exitval)

(***************************************************************************)
(* Sockets (kernel_socket.c).                                              *)
(***************************************************************************)
NOPORT == 0
NOFILE == -1
\* A NULL pointer to a socket, a request or a pipe (heap addresses start at 1).
NIL == 0
\* The union of socket_cb holds listener_s, unbound_s and peer_s in the same
\* storage: peer_s.peer, peer_s.write_pipe and peer_s.read_pipe are the words
\* of listener_s.queue (the rlnode's pointer, prev and next).  LINK is a word
\* that holds a link of the queue; UNINIT is a word that xmalloc returned and
\* nothing has written yet.
LINK == -2
UNINIT == -3

\* The highest port, and the sizes of the heap: sockets, requests and pipes
\* that a run may allocate.  A socket's fid is the address of the socket.
MAX_PORT == 2
MaxSockets == 4
MaxRequests == 2
MaxSockCalls == 6
Ports == 0..MAX_PORT
Sids == 1..MaxSockets
Rids == 1..MaxRequests
PipeIds == 1..(2 * MaxRequests)
SockThreads == {"T1", "T2", "T3"}

\* a < b for two uint values given by their 32-bit patterns.
UnsignedLess(a, b) == IF (a >= 0) = (b >= 0) THEN a < b ELSE a >= 0

SCB_decref(sk, s) ==
  LET r == sk[s].refcount - 1 IN
  [sk EXCEPT ![s].refcount = r,
             ![s].alloc = IF UnsignedLess(r, 0) THEN "freed" ELSE @]

\* get_fcb(fid) # NULL: fid is the fid of a socket that has not been closed.
get_fcb(sk, fid) == fid \in Sids /\ sk[fid].alloc = "live" /\ sk[fid].open

\* kernel_signal wakes one of the threads sleeping on cv, if there is one.
SignalChoices(cv) == IF cv = {} THEN {NULL} ELSE cv

kernel_signal(w, th) ==
  IF w = NULL THEN th ELSE [th EXCEPT ![w].pc = "ready"]

\* sent and rcvd are history: the number of bytes written on the socket and
\* the bytes read on it.
NoSocket ==
  [alloc |-> "none", open |-> FALSE, refcount |-> 0, type |-> "UNBOUND",
   port |-> NOPORT, queue |-> <<>>, req_available |-> {}, peer |-> NIL,
   read_pipe |-> NIL, write_pipe |-> NIL, sent |-> 0, rcvd |-> <<>>]

\* node_req and node_prev are the first two words of queue_node.
NoRequest ==
  [alloc |-> "none", admitted |-> 0, peer |-> NIL, connected_cv |-> {},
   node_req |-> NIL, node_prev |-> NIL]

NoSockThread ==
  [pc |-> "idle", op |-> "none", sock |-> NIL, rq |-> NIL, timed |-> FALSE,
   pipe |-> NIL, n |-> 0, i |-> 0, ret |-> 0]

\* A pipe_cb of a connection; the slots of BUFFER have no value until they
\* are written.
NoPipe ==
  [alloc |-> "none", reader |-> FALSE, writer |-> FALSE, w_position |-> 0,
   r_position |-> 0, w_bytes |-> 0, BUFFER |-> [j \in {} |-> 0],
   has_space |-> {}, has_data |-> {}]

InitSock ==
  /\ sock = [s \in Sids |-> NoSocket]
  /\ PORT_MAP = [p \in Ports |-> NIL]
  /\ req = [r \in Rids |-> NoRequest]
  /\ pipes = [p \in PipeIds |-> NoPipe]
  /\ sthr = [t \in SockThreads |-> NoSockThread]
  /\ scalls = 0

\* A system call that does not block is made by a thread that is running; a
\* fault (a NULL dereference or a double free in the kernel) stops the system.
NoFault == \A t \in SockThreads : sthr[t].pc # "fault"
Runs(t) == NoFault /\ sthr[t].pc = "idle"
SomeThreadRuns == \E t \in SockThreads : Runs(t)

\* The addresses xmalloc returns: the lowest that is not allocated.
NewSocket(sk) ==
  IF \E s \in Sids : sk[s].alloc = "none"
    THEN CHOOSE s \in Sids :
           sk[s].alloc = "none" /\ \A x \in Sids : x < s => sk[x].alloc # "none"
    ELSE NIL

NewRequest ==
  IF \E r \in Rids : req[r].alloc # "live"
    THEN CHOOSE r \in Rids :
           req[r].alloc # "live" /\ \A x \in Rids : x < r => req[x].alloc = "live"
    ELSE NIL

NewPipes ==
  CHOOSE p \in PipeIds :
    /\ p % 2 = 1
    /\ pipes[p].alloc = "none"
    /\ \A x \in PipeIds : x < p => pipes[x].alloc # "none"

\* sys_Socket on the sockets sk: the fid it returns and the sockets after it.
\* FCB_reserve fails when no FCB is left.
Socket(sk, port) ==
  LET s == NewSocket(sk) IN
  IF port < NOPORT \/ port > MAX_PORT \/ s = NIL
    THEN [fid |-> NOFILE, sk |-> sk]
    ELSE [fid |-> s,
          sk |-> [sk EXCEPT ![s] = [NoSocket EXCEPT !.alloc = "live",
                                                   !.open = TRUE,
                                                   !.port = port,
                                                   !.read_pipe = UNINIT,
                                                   !.write_pipe = UNINIT]]]

sys_Socket(port) ==
  /\ SomeThreadRuns
  /\ scalls' = scalls + 1
  /\ sock' = Socket(sock, port).sk
  /\ UNCHANGED <<PORT_MAP, req, pipes, sthr>>
  /\ UNCHANGED <<pvars, tvars, ivars>>

sys_Listen(s) ==
  /\ SomeThreadRuns
  /\ scalls' = scalls + 1
  /\ UNCHANGED <<req, pipes, sthr>>
  /\ UNCHANGED <<pvars, tvars, ivars>>
  /\ IF \/ ~get_fcb(sock, s)
        \/ sock[s].type # "UNBOUND"
        \/ sock[s].port = NOPORT
        \/ /\ PORT_MAP[sock[s].port] # NIL
           /\ sock[PORT_MAP[sock[s].port]].type = "LISTENER"
       THEN UNCHANGED <<sock, PORT_MAP>>    \* return -1
       ELSE /\ sock' = [sock EXCEPT ![s].type = "LISTENER",
                                    ![s].queue = <<>>,
                                    ![s].peer = NIL,
                                    ![s].write_pipe = LINK,
                                    ![s].read_pipe = LINK,
                                    ![s].req_available = {}]
            /\ PORT_MAP' = [PORT_MAP EXCEPT ![sock[s].port] = s]

\* The thread t with its Accept or Connect returned.
SReturned(th, t, ret) == [th EXCEPT ![t] = [NoSockThread EXCEPT !.ret = ret]]

\* sys_Accept after its wait loop, with the sockets as in sk.
accept_finish(t, s, sk) ==
  IF PORT_MAP[sk[s].port] = NIL \/ sk[s].type = "UNBOUND"
    THEN /\ sock' = SCB_decref(sk, s)
         /\ sthr' = SReturned(sthr, t, NOFILE)
         /\ UNCHANGED <<req, pipes>>
    ELSE IF sk[s].queue = <<>>
    THEN \* rlist_pop_front of the empty queue gives the list head, whose req
         \* is NULL; after sys_Socket the NULL request is dereferenced
         /\ sock' = Socket(sk, sk[s].port).sk
         /\ sthr' = [sthr EXCEPT ![t].pc = "fault"]
         /\ UNCHANGED <<req, pipes>>
    ELSE LET r == Head(sk[s].queue)
             sk1 == [sk EXCEPT ![s].queue = Tail(@)]
             res == Socket(sk1, sk[s].port)
         IN
         \E w \in SignalChoices(req[r].connected_cv) :
           IF res.fid = NOFILE
             THEN /\ req' = [req EXCEPT ![r].connected_cv = @ \ {w}]
                  /\ sthr' = SReturned(kernel_signal(w, sthr), t, NOFILE)
                  /\ sock' = SCB_decref(sk1, s)
                  /\ UNCHANGED pipes
             ELSE LET server == res.fid
                      client == req[r].peer
                      p == NewPipes
                      sk2 == [res.sk EXCEPT ![server].type = "PEER",
                                            ![client].type = "PEER",
                                            ![server].peer = client,
                                            ![client].peer = server,
                                            ![server].read_pipe = p,
                                            ![server].write_pipe = p + 1,
                                            ![client].read_pipe = p + 1,
                                            ![client].write_pipe = p]
                  IN
                  /\ p # NIL
                  /\ req' = [req EXCEPT ![r].admitted = 1,
                                        ![r].connected_cv = @ \ {w}]
                  /\ pipes' = [pipes EXCEPT
                                 ![p] = [NoPipe EXCEPT !.alloc = "live",
                                                       !.reader = TRUE,
                                                       !.writer = TRUE],
                                 ![p + 1] = [NoPipe EXCEPT !.alloc = "live",
                                                           !.reader = TRUE,
                                                           !.writer = TRUE]]
                  /\ sthr' = SReturned(kernel_signal(w, sthr), t, server)
                  /\ sock' = SCB_decref(sk2, s)

\* The wait loop of sys_Accept.
accept_loop(t, s, sk) ==
  IF sk[s].queue = <<>> /\ PORT_MAP[sk[s].port] = s
    THEN /\ sock' = [sk EXCEPT ![s].req_available = kernel_wait(@, t)]
         /\ sthr' = [sthr EXCEPT ![t] = [NoSockThread EXCEPT !.pc = "waiting",
                                                            !.op = "accept",
                                                            !.sock = s]]
         /\ UNCHANGED <<req, pipes>>
    ELSE accept_finish(t, s, sk)

sys_Accept(t, lsock) ==
  /\ Runs(t)
  /\ scalls' = scalls + 1
  /\ UNCHANGED PORT_MAP
  /\ UNCHANGED <<pvars, tvars, ivars>>
  /\ IF ~get_fcb(sock, lsock) \/ sock[lsock].type # "LISTENER"
       THEN /\ sthr' = SReturned(sthr, t, NOFILE)
            /\ UNCHANGED <<sock, req, pipes>>
       ELSE accept_loop(t, lsock, [sock EXCEPT ![lsock].refcount = @ + 1])

\* sys_Accept after kernel_wait(&socket->listener_s.req_available).
sys_Accept_resume(t) ==
  /\ NoFault
  /\ sthr[t].pc = "ready" /\ sthr[t].op = "accept"
  /\ accept_loop(t, sthr[t].sock, sock)
  /\ UNCHANGED <<PORT_MAP, scalls>>
  /\ UNCHANGED <<pvars, tvars, ivars>>

\* timed: the timeout is not NO_TIMEOUT.
sys_Connect(t, s, port, timed) ==
  /\ Runs(t)
  /\ scalls' = scalls + 1
  /\ UNCHANGED <<PORT_MAP, pipes>>
  /\ UNCHANGED <<pvars, tvars, ivars>>
  /\ IF \/ port < NOPORT \/ port > MAX_PORT
        \/ ~get_fcb(sock, s)
        \/ sock[s].type # "UNBOUND"
        \/ PORT_MAP[port] = NIL
        \/ sock[PORT_MAP[port]].type # "LISTENER"
       THEN /\ sthr' = SReturned(sthr, t, -1)
            /\ UNCHANGED <<sock, req>>
       ELSE LET listener == PORT_MAP[port]
                r == NewRequest
            IN
            /\ r # NIL
            /\ \E w \in SignalChoices(sock[listener].req_available) :
                 /\ sock' = [sock EXCEPT
                               ![s].refcount = @ + 1,
                               ![listener].queue = rlist_push_back(@, r),
                               ![listener].req_available = @ \ {w}]
                 /\ req' = [req EXCEPT ![r] = [alloc |-> "live", admitted |-> 0,
                                               peer |-> s,
                                               connected_cv |-> kernel_wait({}, t),
                                               node_req |-> r,
                                               node_prev |-> LINK]]
                 /\ sthr' = [kernel_signal(w, sthr) EXCEPT
                               ![t] = [NoSockThread EXCEPT !.pc = "waiting",
                                                          !.op = "connect",
                                                          !.sock = s,
                                                          !.rq = r,
                                                          !.timed = timed]]

\* sys_Connect after kernel_timedwait: the thread was signalled, or its
\* timeout passed.  If the request has been freed in the meantime, the read
\* of req->admitted and the second free are undefined: the kernel stops, or
\* the call returns either value.
sys_Connect_resume(t) ==
  /\ NoFault
  /\ sthr[t].op = "connect"
  /\ sthr[t].pc = "ready" \/ (sthr[t].pc = "waiting" /\ sthr[t].timed)
  /\ UNCHANGED <<PORT_MAP, pipes, scalls>>
  /\ UNCHANGED <<pvars, tvars, ivars>>
  /\ LET s == sthr[t].sock
         r == sthr[t].rq
         sk1 == SCB_decref(sock, s)
     IN
     IF req[r].alloc = "live"
       THEN /\ sock' = [x \in Sids |->
                          [sk1[x] EXCEPT !.queue = rlist_remove(@, r)]]
            /\ req' = [req EXCEPT ![r].alloc = "freed",
                                  ![r].connected_cv = @ \ {t}]
            /\ sthr' = SReturned(sthr, t, IF req[r].admitted = 1 THEN 0 ELSE -1)
       ELSE /\ sock' = sk1
            /\ UNCHANGED req
            /\ \/ sthr' = [sthr EXCEPT ![t].pc = "fault"]
               \/ \E res \in {0, -1} : sthr' = SReturned(sthr, t, res)

\* pipe_reader_close and pipe_writer_close on the pipe at address p.
socket_pipe_reader_close(pp, p) ==
  IF p = NIL \/ ~pp[p].reader THEN pp ELSE [pp EXCEPT ![p].reader = FALSE]

socket_pipe_writer_close(pp, p) ==
  IF p = NIL \/ ~pp[p].writer THEN pp ELSE [pp EXCEPT ![p].writer = FALSE]

\* pipe_reader_close and pipe_writer_close with the word w of the socket's
\* union as their argument.  On a listener the word is a link of the queue:
\* it points at the queue_node of the first (next) or the last (prev)
\* request, or at the queue itself when no request is pending, and the node
\* is read and written as if it were a pipe_cb: reader is the node's
\* pointer to its request and writer is the node's prev.
shutdown_reader_close(pp, w) ==
  IF w \in PipeIds THEN socket_pipe_reader_close(pp, w) ELSE pp

shutdown_writer_close(pp, w) ==
  IF w \in PipeIds THEN socket_pipe_writer_close(pp, w) ELSE pp

shutdown_reader_node(rq, w, queue) ==
  IF w = LINK /\ queue # <<>>
    THEN [rq EXCEPT ![Head(queue)].node_req = NIL]
    ELSE rq

shutdown_writer_node(rq, w, queue) ==
  IF w = LINK /\ queue # <<>>
    THEN [rq EXCEPT ![queue[Len(queue)]].node_prev = NIL]
    ELSE rq

\* mode is SHUTDOWN_READ, SHUTDOWN_WRITE or SHUTDOWN_BOTH.  The type of the
\* socket is not looked at.  On a socket whose union was never written the
\* argument of the pipe close is an indeterminate pointer: the close finds
\* nothing to do, or the kernel stops.
sys_ShutDown(s, mode) ==
  /\ SomeThreadRuns
  /\ scalls' = scalls + 1
  /\ UNCHANGED PORT_MAP
  /\ UNCHANGED <<pvars, tvars, ivars>>
  /\ IF ~get_fcb(sock, s)
       THEN UNCHANGED <<sock, pipes, req, sthr>>    \* return -1
       ELSE LET rd == mode \in {"SHUTDOWN_READ", "SHUTDOWN_BOTH"}
                wr == mode \in {"SHUTDOWN_WRITE", "SHUTDOWN_BOTH"}
                rp == sock[s].read_pipe
                wp == sock[s].write_pipe
                p1 == IF rd THEN shutdown_reader_close(pipes, rp) ELSE pipes
                r1 == IF rd THEN shutdown_reader_node(req, rp, sock[s].queue)
                            ELSE req
            IN
            /\ pipes' = IF wr THEN shutdown_writer_close(p1, wp) ELSE p1
            /\ req' = IF wr THEN shutdown_writer_node(r1, wp, sock[s].queue)
                             ELSE r1
            /\ sock' = [sock EXCEPT
                          ![s].read_pipe = IF rd THEN NIL ELSE @,
                          ![s].write_pipe = IF wr THEN NIL ELSE @]
            /\ \/ UNCHANGED sthr
               \/ /\ (rd /\ rp = UNINIT) \/ (wr /\ wp = UNINIT)
                  /\ \E t \in SockThreads :
                       Runs(t) /\ sthr' = [sthr EXCEPT ![t].pc = "fault"]

\* Close(fid) of a socket: the FCB is released and socket_close runs.  For a
\* listener with pending requests, free is given the address of the queue
\* node inside the request, not the address malloc returned: the behaviour
\* is undefined, and the kernel stops or the request's storage is released.
socket_close(t, s) ==
  /\ Runs(t)
  /\ scalls' = scalls + 1
  /\ UNCHANGED <<pvars, tvars, ivars>>
  /\ IF ~get_fcb(sock, s)
       THEN UNCHANGED <<sock, PORT_MAP, req, pipes, sthr>>    \* return -1
       ELSE LET sk0 == [sock EXCEPT ![s].open = FALSE] IN
            IF sock[s].type = "PEER"
              THEN /\ pipes' = socket_pipe_writer_close(
                                 socket_pipe_reader_close(pipes, sock[s].read_pipe),
                                 sock[s].write_pipe)
                   /\ sock' = SCB_decref([sk0 EXCEPT ![s].read_pipe = NIL,
                                                     ![s].write_pipe = NIL], s)
                   /\ UNCHANGED <<PORT_MAP, req, sthr>>
              ELSE IF sock[s].type = "LISTENER"
              THEN LET q == sock[s].queue
                       pending == {q[i] : i \in DOMAIN q}
                   IN
                   /\ req' = [r \in Rids |->
                                IF r \in pending
                                  THEN [req[r] EXCEPT !.alloc = "freed"]
                                  ELSE req[r]]
                   /\ PORT_MAP' = [PORT_MAP EXCEPT ![sock[s].port] = NIL]
                   /\ sock' = SCB_decref([sk0 EXCEPT ![s].queue = <<>>,
                                                     ![s].req_available = {}], s)
                   /\ \/ sthr' = kernel_broadcast(sock[s].req_available, sthr)
                      \/ /\ pending # {}
                         /\ sthr' = [kernel_broadcast(sock[s].req_available, sthr)
                                       EXCEPT ![t].pc = "fault"]
                   /\ UNCHANGED pipes
              ELSE /\ sock' = SCB_decref(sk0, s)
                   /\ UNCHANGED <<PORT_MAP, req, pipes, sthr>>

\* The pipe socket_write writes to and the pipe socket_read reads from.
socket_write_pipe(sk, s) == sk[s].write_pipe

\* A socket_read that takes the socket's write pipe.
socket_read_own_pipe(sk, s) == sk[s].write_pipe

socket_read_pipe(sk, s) == sk[s].read_pipe

\* The sizes passed to socket_write and socket_read.
SockSizes == {3, 600}

\* Byte k of the data that is written on socket s (the contents of the
\* callers' buffers, in the order of the calls): the streams of different
\* sockets differ at every index.
SocketData(s, k) == Data(100 * s + k)

\* pipe_write on the pipe pp: the number of iterations of the for loop from
\* index i before it suspends (reader open, buffer full) or ends.
socket_WriteRun(pp, i, n) ==
  Least({d \in 0..(n - i) :
           d = n - i \/ (pp.reader /\ pp.w_bytes + d = PIPE_BUFFER_SIZE)})

\* The buffer of pp after k iterations that store bytes first, first + 1, ...
\* of the stream of socket s; a slot that was never written has no value.
socket_WriteBuffer(pp, s, first, k) ==
  LET written == IF k >= PIPE_BUFFER_SIZE
                   THEN 0..(PIPE_BUFFER_SIZE - 1)
                   ELSE {(pp.w_position + d) % PIPE_BUFFER_SIZE : d \in 0..(k - 1)}
  IN  [j \in (DOMAIN pp.BUFFER) \cup written |->
         LET off == (j - pp.w_position) % PIPE_BUFFER_SIZE
             last == off + PIPE_BUFFER_SIZE * ((k - 1 - off) \div PIPE_BUFFER_SIZE)
         IN  IF off >= k THEN pp.BUFFER[j] ELSE SocketData(s, first + last)]

\* The loop of pipe_write on the pipe at address p, from index i up to its
\* suspension or its return; s is the socket the bytes are written on.
socket_write_loop(t, s, p, i, n) ==
  LET pp == pipes[p]
      k == socket_WriteRun(pp, i, n)
  IN
  /\ pipes' = [pipes EXCEPT
                 ![p].BUFFER = socket_WriteBuffer(pp, s, sock[s].sent, k),
                 ![p].w_position = (pp.w_position + k) % PIPE_BUFFER_SIZE,
                 ![p].w_bytes = pp.w_bytes + k,
                 ![p].has_data = {},
                 ![p].has_space = IF i + k < n THEN kernel_wait(@, t) ELSE @]
  /\ sock' = [sock EXCEPT ![s].sent = @ + k]
  /\ sthr' = [kernel_broadcast(pp.has_data, sthr) EXCEPT
                ![t] = IF i + k < n
                         THEN [NoSockThread EXCEPT !.pc = "waiting", !.op = "write",
                                                   !.sock = s, !.pipe = p,
                                                   !.n = n, !.i = i + k]
                         ELSE [NoSockThread EXCEPT !.ret = n]]

\* Write(fid, buf, n) on the socket with fid s.
socket_write(t, s, n) ==
  /\ Runs(t)
  /\ scalls' = scalls + 1
  /\ UNCHANGED <<PORT_MAP, req>>
  /\ UNCHANGED <<pvars, tvars, ivars>>
  /\ IF \/ ~get_fcb(sock, s)
        \/ sock[s].type # "PEER"
        \/ sock[s].write_pipe = NIL
        \/ ~pipes[sock[s].write_pipe].reader
        \/ ~pipes[sock[s].write_pipe].writer
       THEN /\ sthr' = SReturned(sthr, t, -1)
            /\ UNCHANGED <<sock, pipes>>
       ELSE socket_write_loop(t, s, socket_write_pipe(sock, s), 0, n)

\* The writer wakes up in kernel_wait(&pipe->has_space).
socket_write_resume(t) ==
  /\ NoFault
  /\ sthr[t].pc = "ready" /\ sthr[t].op = "write"
  /\ UNCHANGED <<PORT_MAP, req, scalls>>
  /\ UNCHANGED <<pvars, tvars, ivars>>
  /\ socket_write_loop(t, sthr[t].sock, sthr[t].pipe, sthr[t].i, sthr[t].n)

\* pipe_read on the pipe pp: the number of iterations of the for loop from
\* index i before it finds the buffer empty or ends.
socket_ReadRun(pp, i, n) ==
  Least({d \in 0..(n - i) : d = n - i \/ pp.w_bytes - d = 0})

\* The bytes k iterations copy into buf, in order.
socket_ReadBytes(pp, k) ==
  [d \in 1..k |-> pp.BUFFER[(pp.r_position + d - 1) % PIPE_BUFFER_SIZE]]

\* The loop of pipe_read on the pipe at address p, from index i up to its
\* suspension or its return; s is the socket the bytes are read on.
socket_read_loop(t, s, p, i, n) ==
  LET pp == pipes[p]
      k == socket_ReadRun(pp, i, n)
      waits == i + k < n /\ pp.writer
  IN
  /\ pipes' = [pipes EXCEPT
                 ![p].r_position = (pp.r_position + k) % PIPE_BUFFER_SIZE,
                 ![p].w_bytes = pp.w_bytes - k,
                 ![p].has_space = IF i + k = n \/ pp.writer THEN {} ELSE @,
                 ![p].has_data = IF waits THEN kernel_wait(@, t) ELSE @]
  /\ sock' = [sock EXCEPT ![s].rcvd = @ \o socket_ReadBytes(pp, k)]
  /\ sthr' = IF i + k = n
               THEN [kernel_broadcast(pp.has_space, sthr) EXCEPT
                       ![t] = [NoSockThread EXCEPT !.ret = n]]
             ELSE IF pp.writer
               THEN [kernel_broadcast(pp.has_space, sthr) EXCEPT
                       ![t] = [NoSockThread EXCEPT !.pc = "waiting", !.op = "read",
                                                  !.sock = s, !.pipe = p,
                                                  !.n = n, !.i = i + k]]
             ELSE [sthr EXCEPT ![t] = [NoSockThread EXCEPT !.ret = i + k]]

\* Read(fid, buf, n) on the socket with fid s.
socket_read(t, s, n) ==
  /\ Runs(t)
  /\ scalls' = scalls + 1
  /\ UNCHANGED <<PORT_MAP, req>>
  /\ UNCHANGED <<pvars, tvars, ivars>>
  /\ IF \/ ~get_fcb(sock, s)
        \/ sock[s].type # "PEER"
        \/ sock[s].read_pipe = NIL
        \/ ~pipes[sock[s].read_pipe].reader
       THEN /\ sthr' = SReturned(sthr, t, -1)
            /\ UNCHANGED <<sock, pipes>>
       ELSE LET pp == pipes[socket_read_pipe(sock, s)] IN
            IF ~pp.writer /\ pp.r_position = pp.w_position
              THEN /\ sthr' = SReturned(sthr, t, 0)
                   /\ UNCHANGED <<sock, pipes>>
              ELSE socket_read_loop(t, s, socket_read_pipe(sock, s), 0, n)

\* The reader wakes up in kernel_wait(&pipe->has_data).
socket_read_resume(t) ==
  /\ NoFault
  /\ sthr[t].pc = "ready" /\ sthr[t].op = "read"
  /\ UNCHANGED <<PORT_MAP, req, scalls>>
  /\ UNCHANGED <<pvars, tvars, ivars>>
  /\ socket_read_loop(t, sthr[t].sock, sthr[t].pipe, sthr[t].i, sthr[t].n)

(***************************************************************************)
(* The process information stream (sys_OpenInfo, procinfo_read).           *)
(***************************************************************************)
\* The sizes a caller passes to procinfo_read.
InfoSizes == {8, 64}

\* procinfo_read copies the PCB into the local variable pcb and calls
\* get_pid(&pcb), which subtracts PT from the address of that local: the
\* two pointers are not into the same array, so the value is undefined.  It
\* is the pid of the PCB or some other number (here, one past the table).
UndefinedPid(slot) == {slot, MAX_PROC}

InitInfo ==
  /\ info_cb = [alloc |-> "none", pcb_cursor |-> 0]
  /\ info_out = <<>>
  /\ info_ret = [op |-> "none", val |-> 0]

\* reserved: FCB_reserve succeeds.  One stream is opened in a run; its fid
\* is 0.
sys_OpenInfo(reserved) ==
  /\ info_cb.alloc = "none"
  /\ UNCHANGED <<pvars, tvars, svars>>
  /\ IF ~reserved
       THEN /\ info_ret' = [op |-> "OpenInfo", val |-> NOFILE]
            /\ UNCHANGED <<info_cb, info_out>>
       ELSE /\ info_cb' = [alloc |-> "live", pcb_cursor |-> 0]
            /\ info_out' = <<>>
            /\ info_ret' = [op |-> "OpenInfo", val |-> 0]

\* The cursor after the loop that skips FREE slots: the loop stops at a PCB
\* that is not FREE or at the last slot of the table.
SkipFree(cursor) ==
  Least({j \in cursor..(MAX_PROC - 1) :
           j = MAX_PROC - 1 \/ PT[j].pstate # "FREE"})

\* The procinfo that procinfo_read builds from PT[slot].
procinfo(slot, pid) ==
  [slot |-> slot,
   pid |-> pid,
   ppid |-> PT[slot].parent,
   alive |-> IF PT[slot].pstate = "ALIVE" THEN 1 ELSE 0,
   thread_count |-> PT[slot].thread_count]

procinfo_read(size) ==
  /\ info_cb.alloc = "live"
  /\ UNCHANGED <<pvars, tvars, svars>>
  /\ IF info_cb.pcb_cursor = MAX_PROC
       THEN /\ info_ret' = [op |-> "read", val |-> 0]
            /\ UNCHANGED <<info_cb, info_out>>
       ELSE LET slot == SkipFree(info_cb.pcb_cursor) IN
            \E pid \in UndefinedPid(slot) :
              /\ info_out' = Append(info_out, procinfo(slot, pid))
              /\ info_cb' = [info_cb EXCEPT !.pcb_cursor = slot + 1]
              /\ info_ret' = [op |-> "read", val |-> size]

(***************************************************************************)
(* The pipe specification: one writer thread, one reader thread, and the   *)
(* two closes, which any thread holding the file ids may call at any time. *)
(***************************************************************************)
NextPipe ==
  \/ \E retval \in {0, 1} : sys_Pipe(retval)
  \/ \E n \in WriteSizes : pipe_write("W", n)
  \/ pipe_write_resume("W")
  \/ \E n \in ReadSizes : pipe_read("R", n)
  \/ pipe_read_resume("R")
  \/ pipe_writer_close
  \/ pipe_reader_close

Init == InitPipe /\ InitThreads /\ InitSock /\ InitInfo

PipeSpec == Init /\ [][NextPipe]_vars

\* The scheduler runs every ready thread: a woken reader or writer resumes.
FairPipeSpec ==
  /\ PipeSpec
  /\ WF_vars(pipe_write_resume("W"))
  /\ WF_vars(pipe_read_resume("R"))

(***************************************************************************)
(* The thread specification: the threads of the init process create, join, *)
(* detach and exit in any order.                                           *)
(***************************************************************************)
NextThreads ==
  \/ /\ ncalls < MaxCalls
     /\ \/ \E c \in Tids, task \in {NULL, "task"}, a \in Tids :
             sys_CreateThread(c, task, a)
        \/ \E c \in Tids, tid \in Tids \cup {NOTHREAD}, ptr \in BOOLEAN :
             sys_ThreadJoin(c, tid, ptr)
        \/ \E c \in Tids, tid \in Tids \cup {NOTHREAD} : sys_ThreadDetach(c, tid)
        \/ \E c \in Tids, exitval \in ExitVals : sys_ThreadExit(c, exitval)
  \/ \E c \in Tids : sys_ThreadJoin_resume(c)

ThreadSpec == Init /\ [][NextThreads]_vars

\* The scheduler runs every ready thread: a woken joiner resumes.
FairThreadSpec ==
  /\ ThreadSpec
  /\ \A c \in Tids : WF_vars(sys_ThreadJoin_resume(c))

(***************************************************************************)
(* The process specification: the threads of all processes execute         *)
(* processes, create threads, wait for children, join and exit in any      *)
(* order.                                                                  *)
(***************************************************************************)
InitProc == InitPipe /\ InitKernel(ProcTids) /\ InitSock /\ InitInfo

\* The heap hands out its lowest address that is not allocated.
FirstFree(a) ==
  ptcb[a].alloc # "live" /\ \A x \in Heap : x < a => ptcb[x].alloc = "live"

NextProc ==
  \/ /\ ncalls < MaxProcCalls
     /\ \/ \E c \in ProcTids, a \in ProcTids : FirstFree(a) /\ sys_Exec(c, "task", a)
        \/ \E c \in ProcTids, a \in ProcTids :
             FirstFree(a) /\ sys_CreateThread(c, "task", a)
        \/ \E c \in ProcTids, cpid \in (Pids \ {0}) \cup {NOPROC} : sys_WaitChild(c, cpid, TRUE)
        \/ \E c \in ProcTids, tid \in ProcTids \cup {NOTHREAD} :
             sys_ThreadJoin(c, tid, TRUE)
        \/ \E c \in ProcTids : sys_Exit(c, 42)
  \/ \E c \in ProcTids : sys_WaitChild_resume(c)
  \/ \E c \in ProcTids : sys_ThreadJoin_resume(c)
  \/ \E c \in ProcTids : sys_ThreadExit_resume(c)

ProcSpec == InitProc /\ [][NextProc]_vars

\* The scheduler runs every thread that a broadcast made ready.
FairProcSpec ==
  /\ ProcSpec
  /\ \A c \in ProcTids : /\ WF_vars(sys_WaitChild_resume(c))
                         /\ WF_vars(sys_ThreadJoin_resume(c))
                         /\ WF_vars(sys_ThreadExit_resume(c))

(***************************************************************************)
(* The socket specification: three threads of one process, which share     *)
(* its fids, make socket calls in any order.  ShutDown is called on        *)
(* connected sockets.                                                      *)
(***************************************************************************)
NextSock ==
  \/ /\ scalls < MaxSockCalls
     /\ \/ \E port \in Ports \cup {MAX_PORT + 1} : sys_Socket(port)
        \/ \E s \in Sids : sys_Listen(s)
        \/ \E t \in SockThreads, s \in Sids : sys_Accept(t, s)
        \/ \E t \in SockThreads, s \in Sids, port \in Ports, timed \in BOOLEAN :
             sys_Connect(t, s, port, timed)
        \/ \E s \in Sids,
              mode \in {"SHUTDOWN_READ", "SHUTDOWN_WRITE", "SHUTDOWN_BOTH"} :
             sock[s].type = "PEER" /\ sys_ShutDown(s, mode)
        \/ \E t \in SockThreads, s \in Sids : socket_close(t, s)
  \/ \E t \in SockThreads : sys_Accept_resume(t)
  \/ \E t \in SockThreads : sys_Connect_resume(t)

SocketSpec == Init /\ [][NextSock]_vars

(***************************************************************************)
(* Properties of the threads.                                              *)
(***************************************************************************)
\* Thread c is inside sys_ThreadJoin(tid): it has incremented the refcount
\* and not yet decremented it.
Joining(c, tid) == tcb[c].pc \in {"waiting", "ready"} /\ tcb[c].tid = tid

\* ThreadJoin(tid) by c passes the checks at its entry.
Joinable(c, tid) ==
  rlist_find(PT[CURPROC(c)].ptcb_list, tid) /\ tid # c /\ ptcb[tid].detached = 0

\* C9: a ThreadJoin on a thread that is linked in the process, is not the
\* caller and is never detached returns only after the thread has exited,
\* returns 0 and stores exactly the value the thread passed to ThreadExit,
\* whether the join started after the exit (first conjunct) or before it
\* (second and third), and for every joiner.
JoinReturnsExitValue ==
  [][\A c \in Tids :
       /\ \A tid \in Tids, ptr \in BOOLEAN :
            (tcb[c].pc = "running" /\ Joinable(c, tid)
               /\ sys_ThreadJoin(c, tid, ptr)) =>
              IF ptcb[tid].exited = 1
                THEN /\ tcb'[c].pc = "running"
                     /\ tcb'[c].ret = 0
                     /\ ptr => tcb'[c].val = tcb[tid].exitarg
                ELSE Joining(c, tid)'
       /\ \A tid \in Tids :
            (Joining(c, tid) /\ ptcb[tid].detached = 0 /\ ptcb'[tid].detached = 0) =>
              \/ Joining(c, tid)'
              \/ /\ tcb[tid].pc = "exited"
                 /\ tcb'[c].pc = "running"
                 /\ tcb'[c].ret = 0
                 /\ tcb[c].ptr => tcb'[c].val = tcb[tid].exitarg]_vars

\* C9 witness: two threads joined the same thread, which exited with 42; one
\* has returned 0 with 42 stored, and the other, suspended in its join before
\* the exit, has been woken by it.
TwoJoinersGetExitValue ==
  \E t \in Tids, c1 \in Tids, c2 \in Tids :
    /\ c1 # c2 /\ c1 # t /\ c2 # t
    /\ tcb[t].pc = "exited" /\ tcb[t].exitarg = 42 /\ ptcb[t].detached = 0
    /\ tcb[c1].pc = "running" /\ tcb[c1].ret = 0 /\ tcb[c1].val = 42
    /\ Joining(c2, t) /\ tcb[c2].pc = "ready"

\* C10: a freed PTCB has exited = 1 and refcount = 0, and the PTCB of a
\* thread that some joiner is still joining is not freed (it is the live
\* record whose refcount counts that joiner).
PTCBFreedOnlyUnreferenced ==
  /\ \A t \in Tids :
       ptcb[t].alloc = "freed" => (ptcb[t].exited = 1 /\ ptcb[t].refcount = 0)
  /\ \A c \in Tids, t \in Tids :
       Joining(c, t) => (ptcb[t].alloc = "live" /\ ptcb[t].refcount >= 1)

\* C10 witness: the PTCB of a thread that two joiners joined has been freed
\* by the last of them.
PTCBFreedByLastJoiner ==
  \E t \in Tids, c1 \in Tids, c2 \in Tids :
    /\ c1 # c2
    /\ ptcb[t].alloc = "freed" /\ ptcb[t].exitval = 42
    /\ tcb[c1].pc = "running" /\ tcb[c1].ret = 0 /\ tcb[c1].val = 42
    /\ tcb[c2].pc = "running" /\ tcb[c2].ret = 0 /\ tcb[c2].val = 42

(***************************************************************************)
(* Properties of the pipe.                                                 *)
(***************************************************************************)
\* Bytes of the writer's stream copied into the pipe so far.
Accepted == sent + thr["W"].i

\* The unread bytes of the buffer, oldest first.
Unread ==
  [d \in 1..w_bytes |-> BUFFER[(r_position + d - 1) % PIPE_BUFFER_SIZE]]

\* The transition is a pipe_write / pipe_read call made by the thread.
IsWriteCall == thr["W"].pc = "idle" /\ wcalls' = wcalls + 1
IsReadCall == thr["R"].pc = "idle" /\ rcalls' = rcalls + 1
\* The transition resumes the suspended call of the thread.
IsWriteResume == thr["W"].pc = "ready" /\ thr'["W"].pc # "ready"
IsReadResume == thr["R"].pc = "ready" /\ thr'["R"].pc # "ready"

\* C1: in every reachable state of an existing pipe,
\* 0 <= w_bytes <= PIPE_BUFFER_SIZE and
\* w_position = (r_position + w_bytes) mod PIPE_BUFFER_SIZE.
PipeCursorInvariant ==
  pipecb = "allocated" =>
    /\ 0 <= w_bytes
    /\ w_bytes <= PIPE_BUFFER_SIZE
    /\ w_position = (r_position + w_bytes) % PIPE_BUFFER_SIZE

\* C2: the bytes delivered by the pipe_read calls are always a prefix of the
\* bytes accepted by the pipe_write calls (nothing lost, duplicated or
\* reordered).
DeliveredIsPrefixOfWritten ==
  /\ Len(delivered) <= Accepted
  /\ \A k \in 1..Len(delivered) : delivered[k] = Data(k - 1)

\* C3: a reader suspended on has_data eventually returns once the writer side
\* is closed, and a writer suspended on has_space eventually returns once the
\* reader side is closed.
HalfCloseWakesWaiters ==
  /\ (thr["R"].pc = "waiting" /\ writer = NULL) ~> (thr["R"].pc = "idle")
  /\ (thr["W"].pc = "waiting" /\ reader = NULL) ~> (thr["W"].pc = "idle")

\* C4: a suspended pipe_write that resumes after the reader side was closed
\* copies no further byte and returns the number of bytes copied before.
WriteStopsWhenReaderClosed ==
  [][(IsWriteResume /\ reader = NULL) =>
       /\ BUFFER' = BUFFER
       /\ w_bytes' = w_bytes
       /\ thr'["W"].pc = "idle"
       /\ thr'["W"].ret = thr["W"].i]_vars

\* C5: with the writer side closed and k unread bytes in the buffer
\* (0 <= k <= PIPE_BUFFER_SIZE), pipe_read(n) with n > k delivers exactly those
\* k bytes and returns k, leaving an empty pipe on which the next pipe_read
\* (the case k = 0) returns 0.
ReadDrainsAfterWriterClose ==
  [][(/\ IsReadCall
      /\ reader # NULL
      /\ writer = NULL
      /\ 0 <= w_bytes
      /\ w_bytes <= PIPE_BUFFER_SIZE
      /\ thr'["R"].n > w_bytes) =>
       /\ thr'["R"].pc = "idle"
       /\ thr'["R"].ret = w_bytes
       /\ delivered' = delivered \o Unread
       /\ w_bytes' = 0]_vars

\* C6: pipe_read(n) on a pipe that holds k bytes, 0 < k < n, with the writer
\* side open returns k with those bytes at once, without waiting.
ShortReadReturnsAtOnce ==
  [][(/\ IsReadCall
      /\ reader # NULL
      /\ writer # NULL
      /\ 0 < w_bytes
      /\ w_bytes < thr'["R"].n) =>
       /\ thr'["R"].pc = "idle"
       /\ thr'["R"].ret = w_bytes
       /\ delivered' = delivered \o Unread]_vars

\* The writer is inside a pipe_write of 600 bytes and has copied 512 of them.
WriteOf600Suspended ==
  thr["W"].n = 600 /\ thr["W"].i = PIPE_BUFFER_SIZE

\* C7: a pipe_write of 600 bytes into an empty pipe with both sides open
\* suspends with exactly 512 bytes copied; a pipe_read of 200 then returns 200
\* and wakes the writer, which on resuming copies the remaining 88 bytes and
\* returns 600; and while the reader side is open the reader gets the bytes
\* in the order written (the witness reads all 600).
BlocksOnFullThenDrains ==
  [][/\ (IsWriteCall /\ thr'["W"].n = 600 /\ w_bytes = 0
           /\ reader # NULL /\ writer # NULL) =>
          /\ thr'["W"].pc = "waiting"
          /\ thr'["W"].i = 512
          /\ w_bytes' = 512
     /\ (IsReadCall /\ thr'["R"].n = 200 /\ thr["W"].pc = "waiting"
           /\ WriteOf600Suspended /\ w_bytes = 512
           /\ reader # NULL /\ writer # NULL) =>
          /\ thr'["R"].pc = "idle"
          /\ thr'["R"].ret = 200
          /\ thr'["W"].pc = "ready"
          /\ w_bytes' = 312
     /\ (IsWriteResume /\ WriteOf600Suspended /\ w_bytes = 312) =>
          /\ thr'["W"].pc = "idle"
          /\ thr'["W"].ret = 600
          /\ w_bytes' = 312 + 88
          /\ Accepted' = Accepted + 88
     /\ reader' # NULL => DeliveredIsPrefixOfWritten']_vars

\* C7 witness: the single write of 600 bytes has returned 600 and three reads
\* of 200 have delivered all 600 bytes in order, both sides still open.
AllOf600Delivered ==
  /\ wcalls = 1 /\ sent = 600 /\ thr["W"].pc = "idle" /\ thr["W"].ret = 600
  /\ rcalls = 3 /\ thr["R"].pc = "idle" /\ thr["R"].ret = 200
  /\ Len(delivered) = 600
  /\ \A k \in 1..600 : delivered[k] = Data(k - 1)
  /\ reader # NULL /\ writer # NULL

\* C8: the storage of a pipe is released once both sides are closed, and not
\* before.
PipeReleasedWhenBothClosed ==
  /\ (pipecb # "unallocated" /\ reader = NULL /\ writer = NULL) => pipecb = "freed"
  /\ pipecb = "freed" => (reader = NULL /\ writer = NULL)

\* C30: while both sides of the pipe are open, the reader and the writer are
\* never suspended at the same time (a suspended thread that has been made
\* ready is not counted: its wake-up is pending); a pipe_read, as a call or
\* as the continuation of a suspended call, wakes the suspended writer, and
\* a pipe_write wakes the suspended reader.
NoLostWakeup ==
  /\ []((reader # NULL /\ writer # NULL) =>
          ~(thr["R"].pc = "waiting" /\ thr["W"].pc = "waiting"))
  /\ [][/\ (/\ (IsReadCall \/ IsReadResume)
             /\ reader # NULL /\ writer # NULL
             /\ thr["W"].pc = "waiting") => thr'["W"].pc = "ready"
        /\ (/\ (IsWriteCall \/ IsWriteResume)
             /\ reader # NULL /\ writer # NULL
             /\ thr["R"].pc = "waiting") => thr'["R"].pc = "ready"]_vars

\* C30 witness: the reader has emptied the full buffer and suspended on
\* has_data, and its read has woken the writer that was suspended on
\* has_space after copying 512 bytes; both sides are open.
ReaderSuspendsAfterWakingWriter ==
  /\ reader # NULL /\ writer # NULL
  /\ thr["R"].pc = "waiting"
  /\ thr["W"].pc = "ready" /\ thr["W"].i >= PIPE_BUFFER_SIZE
  /\ w_bytes = 0

\* ---------------------------------------------------------------------------
\* Threads and processes: life cycle of PTCBs and PCBs
\* ---------------------------------------------------------------------------

\* The PTCB at address t is linked in the thread list of some PCB.
Linked(t) == \E p \in Pids : rlist_find(PT[p].ptcb_list, t)

\* C11: a PTCB that has exited and has refcount 0 has been freed and unlinked
\* from its PCB's thread list (so the PTCB of a thread that was detached or
\* never joined is freed once the thread has exited).
ExitedUnreferencedPTCBFreed ==
  \A t \in Heap :
    (ptcb[t].alloc # "none" /\ ptcb[t].exited = 1 /\ ptcb[t].refcount = 0)
      => (ptcb[t].alloc = "freed" /\ ~Linked(t))

\* C12: for every PCB, thread_count equals the number of PTCBs linked in its
\* thread list, after every CreateThread, ThreadExit, Exec and WaitChild.
ThreadCountIsListLength ==
  \A p \in Pids : PT[p].thread_count = Len(PT[p].ptcb_list)

\* C13: a PCB is ALIVE exactly when its thread_count is positive, and a ZOMBIE
\* PCB has thread_count 0; the idle process and the init process included.
PstateMatchesThreadCount ==
  \A p \in Pids :
    /\ PT[p].pstate = "ALIVE" <=> PT[p].thread_count > 0
    /\ PT[p].pstate = "ZOMBIE" => PT[p].thread_count = 0

\* ---------------------------------------------------------------------------
\* ThreadDetach and ThreadJoin
\* ---------------------------------------------------------------------------

\* The thread c is in ThreadJoin(tid) and the thread tid has been detached.
\* sys_ThreadJoin refuses a detached thread at its entry and sys_ThreadDetach
\* refuses an exited one, so c was blocked when sys_ThreadDetach(tid)
\* succeeded on the unexited thread.
JoinerOfDetached(c, tid) == Joining(c, tid) /\ ptcb[tid].detached = 1

\* C14: after a successful ThreadDetach(tid) on a thread that has not exited,
\* every thread blocked in ThreadJoin(tid) eventually wakes and returns -1
\* without publishing an exit value; every later ThreadJoin(tid) returns -1;
\* and detached never goes back to 0 (the PTCB is not freed either, so no
\* later allocation at its address resets the field).
DetachFailsJoiners ==
  /\ [][\A c \in Tids, tid \in Tids :
          /\ (JoinerOfDetached(c, tid) /\ ~Joining(c, tid)') =>
               (tcb'[c].ret = -1 /\ tcb'[c].val = tcb[c].val)
          /\ (/\ tcb[c].pc = "running"
              /\ ptcb[tid].alloc = "live" /\ ptcb[tid].detached = 1
              /\ \E ptr \in BOOLEAN : sys_ThreadJoin(c, tid, ptr)) =>
               (tcb'[c].pc = "running" /\ tcb'[c].ret = -1
                  /\ tcb'[c].val = tcb[c].val)
          /\ (ptcb[tid].alloc = "live" /\ ptcb[tid].detached = 1) =>
               (ptcb'[tid].alloc = "live" /\ ptcb'[tid].detached = 1)]_vars
  /\ \A c \in Tids :
       (\E tid \in Tids : JoinerOfDetached(c, tid))
         ~> (\A tid \in Tids : ~Joining(c, tid))

\* C14 witness: a joiner blocked in ThreadJoin(tid) has been woken by a
\* successful ThreadDetach(tid) and is about to return.
JoinerWokenByDetach ==
  \E c \in Tids, tid \in Tids :
    JoinerOfDetached(c, tid) /\ tcb[c].pc = "ready" /\ ptcb[tid].exited = 0

\* The PTCB at address tid belongs to a thread of the process that now uses
\* the PCB pcb: it is allocated and was created in this process.
ThreadOf(tid, pcb) ==
  /\ ptcb[tid].alloc = "live"
  /\ ptcb[tid].pcb = pcb
  /\ ptcb[tid].gen = PT[pcb].gen

\* C15: ThreadJoin(tid) returns -1 at once, changing no refcount, when tid is
\* NOTHREAD, is not a thread of the calling process (ids of threads of an
\* earlier process that used the same PCB and ids destroyed by a completed
\* join included), is the caller itself, or names a detached thread.
JoinRejectsAtOnce ==
  [][\A c \in ProcTids, tid \in ProcTids \cup {NOTHREAD} :
       (/\ tcb[c].pc = "running"
        /\ \/ tid = NOTHREAD
           \/ ~ThreadOf(tid, CURPROC(c))
           \/ tid = sys_ThreadSelf(c)
           \/ ptcb[tid].detached = 1
        /\ sys_ThreadJoin(c, tid, TRUE)) =>
         /\ tcb'[c].pc = "running"
         /\ tcb'[c].ret = -1
         /\ \A t \in Heap : ptcb'[t].refcount = ptcb[t].refcount]_vars

\* ---------------------------------------------------------------------------
\* WaitChild and the process table
\* ---------------------------------------------------------------------------

\* The thread c is suspended in sys_WaitChild.
InWaitChild(c) ==
  tcb[c].pc \in {"waiting", "ready"} /\ tcb[c].wait \in {"specific", "any"}

\* The process pid is one the suspended sys_WaitChild of c waits for: the
\* child it named, or any child of its process.
Awaited(c, pid) ==
  IF tcb[c].wait = "specific"
    THEN tcb[c].cpid = pid
    ELSE rlist_find(PT[CURPROC(c)].children_list, pid)

\* C16: when a thread is blocked in WaitChild, for a specific child or for any
\* child, and the awaited child's last thread exits, the wait eventually
\* returns that child's pid together with the child's exit value; after the
\* return the child's PCB is FREE and in neither the children list nor the
\* exited list of the caller's process.
WaitChildReturnsExitedChild ==
  /\ [][\A c \in ProcTids :
          (InWaitChild(c) /\ ~InWaitChild(c)') =>
            LET pid == tcb'[c].ret IN
            /\ pid \in Pids
            /\ Awaited(c, pid)
            /\ tcb'[c].val = PT[pid].exitval
            /\ PT'[pid].pstate = "FREE"
            /\ ~rlist_find(PT'[CURPROC(c)].children_list, pid)
            /\ ~rlist_find(PT'[CURPROC(c)].exited_list, pid)]_vars
  /\ \A c \in ProcTids :
       (InWaitChild(c) /\ \E pid \in Pids :
                            Awaited(c, pid) /\ PT[pid].pstate = "ZOMBIE")
         ~> ~InWaitChild(c)

\* C17: the state of a PCB changes only FREE -> ALIVE (by Exec), ALIVE ->
\* ZOMBIE (its last thread exits) and ZOMBIE -> FREE (reaped by WaitChild);
\* Exec never returns the pid of a PCB that is ALIVE or ZOMBIE, and an ALIVE
\* PCB is never released.
PCBLifeCycle ==
  [][/\ \A pid \in Pids :
          PT'[pid].pstate # PT[pid].pstate =>
            <<PT[pid].pstate, PT'[pid].pstate>> \in
              {<<"FREE", "ALIVE">>, <<"ALIVE", "ZOMBIE">>, <<"ZOMBIE", "FREE">>}
     /\ \A c \in ProcTids, a \in ProcTids :
          (/\ tcb[c].pc = "running"
           /\ FirstFree(a)
           /\ sys_Exec(c, "task", a)
           /\ tcb'[c].ret # NOPROC) =>
            PT[tcb'[c].ret].pstate = "FREE"]_vars

\* C18: every process with pid > 1 that is not FREE has a parent that is not
\* FREE, appears exactly once in the parent's children list, and is in the
\* parent's exited list exactly when it is ZOMBIE; also after its parent
\* exited and it was given to init.
Count(list, node) == Cardinality({i \in DOMAIN list : list[i] = node})

FamilyTree ==
  \A pid \in Pids :
    (pid > 1 /\ PT[pid].pstate # "FREE") =>
      LET parent == PT[pid].parent IN
      /\ parent \in Pids
      /\ PT[parent].pstate # "FREE"
      /\ Count(PT[parent].children_list, pid) = 1
      /\ rlist_find(PT[parent].exited_list, pid) <=> PT[pid].pstate = "ZOMBIE"

\* ---------------------------------------------------------------------------
\* Sockets
\* ---------------------------------------------------------------------------

\* The socket s exists: it is allocated and either open or still used by a
\* thread suspended in Accept or Connect on it.
SocketExists(s) ==
  /\ sock[s].alloc = "live"
  /\ \/ sock[s].open
     \/ \E t \in SockThreads : sthr[t].op # "none" /\ sthr[t].sock = s

\* C19: every existing LISTENER socket s with port p has PORT_MAP[p] = s, and
\* no two existing LISTENER sockets have the same port; also after a
\* listener was closed while a thread is blocked in Accept on it.
ListenerIsPublished ==
  /\ \A s \in Sids :
       (SocketExists(s) /\ sock[s].type = "LISTENER") =>
         PORT_MAP[sock[s].port] = s
  /\ \A s1, s2 \in Sids :
       (/\ s1 # s2
        /\ SocketExists(s1) /\ sock[s1].type = "LISTENER"
        /\ SocketExists(s2) /\ sock[s2].type = "LISTENER") =>
         sock[s1].port # sock[s2].port

\* C20: the tag of a socket changes only from UNBOUND to LISTENER or from
\* UNBOUND to PEER; a LISTENER or PEER socket never changes its tag again,
\* whatever the interleaving of Listen, Connect, Accept, ShutDown and Close.
SocketTagMonotonic ==
  [][\A s \in Sids :
       (sock[s].alloc = "live" /\ sock'[s].type # sock[s].type) =>
         sock[s].type = "UNBOUND"]_vars

\* C22: when a thread that was blocked in Accept resumes after its listener
\* was closed, the Accept returns NOFILE, pops no request and creates no
\* socket, whatever happened between the close and the resumption (also when
\* another socket has become the listener of the same port).
ClosedAcceptReturnsNOFILE ==
  [][\A t \in SockThreads :
       (/\ sthr[t].op = "accept"
        /\ sthr[t].pc = "ready"
        /\ ~sock[sthr[t].sock].open
        /\ sthr'[t] # sthr[t]) =>
         /\ sthr'[t].pc = "idle"
         /\ sthr'[t].ret = NOFILE
         /\ \A s \in Sids : /\ sock'[s].alloc = sock[s].alloc
                            /\ sock'[s].queue = sock[s].queue]_vars

\* C23: a connection request is freed exactly once, by the thread that made
\* it in Connect, when that thread has woken: while a thread is inside
\* Connect its request is allocated, and the only step that frees a request
\* is the return of the Connect that allocated it (never Accept or Close).
RequestFreedOnceByOwner ==
  /\ [](\A t \in SockThreads :
          sthr[t].op = "connect" => req[sthr[t].rq].alloc = "live")
  /\ [][\A r \in Rids :
          (req[r].alloc = "live" /\ req'[r].alloc # "live") =>
            \E t \in SockThreads : /\ sthr[t].op = "connect"
                                   /\ sthr[t].rq = r
                                   /\ sthr'[t].op = "none"]_vars

(***************************************************************************)
(* The socket specification under the scheduler: every thread that a       *)
(* signal or a broadcast made ready resumes, and a Connect whose timeout   *)
(* is not NO_TIMEOUT resumes when the timeout has passed.                  *)
(***************************************************************************)
FairSocketSpec ==
  /\ SocketSpec
  /\ \A t \in SockThreads : /\ WF_vars(sys_Accept_resume(t))
                            /\ WF_vars(sys_Connect_resume(t))

\* Thread t is inside Connect and its request was released by the Close of
\* the listener in whose queue it was pending.
PendingAtClose(t) ==
  sthr[t].op = "connect" /\ req[sthr[t].rq].alloc = "freed"

\* C24: when a listener is closed with requests pending in its queue, the
\* Connect of every thread whose request was pending eventually returns
\* (also when it waits with NO_TIMEOUT), it returns -1, and the connecting
\* socket is still UNBOUND.
CloseRejectsPendingConnects ==
  /\ \A t \in SockThreads :
       PendingAtClose(t) ~> (sthr[t].op = "none" /\ sthr[t].ret = -1)
  /\ [][\A t \in SockThreads :
          (PendingAtClose(t) /\ sthr'[t] # sthr[t]) =>
            /\ sthr'[t].op = "none"
            /\ sthr'[t].ret = -1
            /\ sock'[sthr[t].sock].type = "UNBOUND"]_vars

\* Some Accept or Connect in progress holds a reference to socket s: it has
\* incremented s's refcount and not yet called SCB_decref.
Referenced(s) ==
  \E t \in SockThreads : sthr[t].op \in {"accept", "connect"} /\ sthr[t].sock = s

\* C26: a socket's storage is freed exactly when the socket has been closed
\* and no Accept or Connect in progress holds a reference to it, and the
\* unsigned reference count never wraps below zero.
SocketFreedWhenUnreferenced ==
  \A s \in Sids :
    sock[s].alloc # "none" =>
      /\ sock[s].alloc = "freed" <=> (~sock[s].open /\ ~Referenced(s))
      /\ sock[s].refcount >= 0

(***************************************************************************)
(* The information stream specification: processes are executed, exit and  *)
(* are waited for; then the stream is opened and read while the process    *)
(* table stays as it is.                                                   *)
(***************************************************************************)
MaxInfoCalls == 4

NextInfo ==
  \/ /\ info_cb.alloc = "none"
     /\ \/ /\ ncalls < MaxInfoCalls
           /\ \/ \E c \in ProcTids, a \in ProcTids :
                   FirstFree(a) /\ sys_Exec(c, "task", a)
              \/ \E c \in ProcTids, cpid \in (Pids \ {0}) \cup {NOPROC} :
                   sys_WaitChild(c, cpid, TRUE)
              \/ \E c \in ProcTids : sys_Exit(c, 42)
        \/ \E c \in ProcTids : sys_WaitChild_resume(c)
        \/ \E c \in ProcTids : sys_ThreadExit_resume(c)
  \/ \E reserved \in BOOLEAN : sys_OpenInfo(reserved)
  \/ \E size \in InfoSizes : procinfo_read(size)

InfoSpec == InitProc /\ [][NextInfo]_vars

\* The slots of the records read so far.
InfoSlots == {info_out[i].slot : i \in DOMAIN info_out}

\* C27: on an open information stream, with the process table unchanged,
\* the records read so far are the records of the PCBs below the cursor that
\* are not FREE, one each, in increasing order of the PCBs' pids; no record
\* is the record of a FREE slot; and a read has returned 0 only after every
\* PCB that is not FREE was reported.
InfoListsProcesses ==
  info_cb.alloc = "live" =>
    /\ \A i \in DOMAIN info_out : PT[info_out[i].slot].pstate # "FREE"
    /\ \A i, j \in DOMAIN info_out : i < j => info_out[i].slot < info_out[j].slot
    /\ \A p \in Pids :
         (p < info_cb.pcb_cursor /\ PT[p].pstate # "FREE") => p \in InfoSlots
    /\ (info_ret.op = "read" /\ info_ret.val = 0) =>
         InfoSlots = {p \in Pids : PT[p].pstate # "FREE"}

\* The first n PCBs of the free list that starts at p, chained through
\* parent.
RECURSIVE FreeChain(_, _)
FreeChain(p, n) ==
  IF p = NOPROC \/ n = 0 THEN <<>> ELSE <<p>> \o FreeChain(PT[p].parent, n - 1)

\* C29: each zombie is reaped at most once: every step that releases PCBs
\* releases PCBs that were ZOMBIE, one decrement of process_count for each;
\* so process_count is the number of PCBs that are not FREE and no PCB is on
\* the free list twice.
ZombieReapedOnce ==
  /\ [](/\ process_count = Cardinality({p \in Pids : PT[p].pstate # "FREE"})
        /\ LET chain == FreeChain(pcb_freelist, MAX_PROC + 1) IN
           \A i, j \in DOMAIN chain : i # j => chain[i] # chain[j])
  /\ [][process_count' <= process_count =>
          process_count - process_count' =
            Cardinality({p \in Pids : PT[p].pstate = "ZOMBIE" /\ PT'[p].pstate = "FREE"})]_vars

(***************************************************************************)
(* The reaping specification: the threads of init execute children, create *)
(* threads and wait for children, and the children exit.  A failed assert  *)
(* stops the kernel.                                                       *)
(***************************************************************************)
MaxReapCalls == 9

NoAbort == \A c \in DOMAIN tcb : tcb[c].pc # "abort"

NextReap ==
  \/ /\ ncalls < MaxReapCalls
     /\ NoAbort
     /\ \/ \E c \in ProcTids, a \in ProcTids :
             tcb[c].owner = 1 /\ FirstFree(a) /\ sys_Exec(c, "task", a)
        \/ \E c \in ProcTids, a \in ProcTids :
             tcb[c].owner = 1 /\ FirstFree(a) /\ sys_CreateThread(c, "task", a)
        \/ \E c \in ProcTids, cpid \in {2, NOPROC} : sys_WaitChild(c, cpid, TRUE)
        \/ \E c \in ProcTids : tcb[c].owner # 1 /\ sys_Exit(c, 42)
  \/ \E c \in ProcTids : NoAbort /\ sys_WaitChild_resume(c)

ReapSpec == InitProc /\ [][NextReap]_vars

MaxConnCalls == 7

NextConn ==
  \/ /\ scalls < MaxConnCalls
     /\ \/ sys_Socket(1)
        \/ \E s \in Sids : sys_Listen(s)
        \/ \E t \in SockThreads, s \in Sids : sys_Accept(t, s)
        \/ \E t \in SockThreads, s \in Sids, timed \in BOOLEAN :
             sys_Connect(t, s, 1, timed)
  \/ \E t \in SockThreads : sys_Accept_resume(t)
  \/ \E t \in SockThreads : sys_Connect_resume(t)

ConnSpec == Init /\ [][NextConn]_vars

\* The peer of a is a PEER that points back at a, and each one writes to the
\* pipe the other reads from.
PairedIn(sk, a, b) ==
  /\ b # NIL
  /\ sk[b].type = "PEER"
  /\ sk[b].peer = a
  /\ (sk[a].write_pipe # NIL /\ sk[b].read_pipe # NIL)
       => sk[a].write_pipe = sk[b].read_pipe
  /\ (sk[a].read_pipe # NIL /\ sk[b].write_pipe # NIL)
       => sk[a].read_pipe = sk[b].write_pipe

PairedWith(a, b) == PairedIn(sock, a, b)

\* C21: in every reachable state every PEER socket a with peer b has b a PEER
\* with b.peer = a, a.write_pipe = b.read_pipe and a.read_pipe = b.write_pipe
\* (where both pointers are non-null), also when two threads call Connect on
\* the same UNBOUND socket at the same time.
PeersAreSymmetric ==
  \A a \in Sids :
    (sock[a].alloc = "live" /\ sock[a].type = "PEER") => PairedWith(a, sock[a].peer)

(***************************************************************************)
(* The channel specification: the process opens two sockets on port 1,     *)
(* listens, connects (one Connect per socket, without a timeout) and       *)
(* accepts, and two of its threads write and read on the connected         *)
(* sockets, one writer and one reader per socket at a time.  Every call is *)
(* made on an open socket; no socket is shut down or closed.               *)
(***************************************************************************)
MaxChanCalls == 9
MaxOpened == 2
ChanThreads == {"T1", "T2"}

\* A thread is inside a read or a write on socket s.
Busy(s, op) == \E t \in SockThreads : sthr[t].op = op /\ sthr[t].sock = s

NextChan ==
  \/ /\ scalls < MaxChanCalls
     /\ \/ NewSocket(sock) \in 1..MaxOpened /\ sys_Socket(1)
        \/ \E s \in Sids : get_fcb(sock, s) /\ sys_Listen(s)
        \/ \E t \in ChanThreads, s \in Sids : get_fcb(sock, s) /\ sys_Accept(t, s)
        \/ \E t \in ChanThreads, s \in Sids :
             get_fcb(sock, s) /\ ~Referenced(s) /\ sys_Connect(t, s, 1, FALSE)
        \/ \E t \in ChanThreads, s \in Sids, n \in SockSizes :
             sock[s].type = "PEER" /\ ~Busy(s, "write") /\ socket_write(t, s, n)
        \/ \E t \in ChanThreads, s \in Sids, n \in SockSizes :
             sock[s].type = "PEER" /\ ~Busy(s, "read") /\ socket_read(t, s, n)
  \/ \E t \in SockThreads : sys_Accept_resume(t)
  \/ \E t \in SockThreads : sys_Connect_resume(t)
  \/ \E t \in SockThreads : socket_write_resume(t)
  \/ \E t \in SockThreads : socket_read_resume(t)

ChanSpec == Init /\ [][NextChan]_vars

\* Thread t's Accept on a listener returns in this step, from the call
\* itself or after its wait for a request.
AcceptReturns(t) ==
  /\ sthr'[t].op = "none"
  /\ \/ sys_Accept_resume(t)
     \/ \E s \in Sids : sock[s].type = "LISTENER" /\ sys_Accept(t, s)

\* Thread t's Connect returns in this step.
ConnectReturns(t) == sthr'[t].op = "none" /\ sys_Connect_resume(t)

\* C25: after Listen on a socket with port p, a Connect to p by another
\* UNBOUND socket and an Accept on the listener, in either order, Connect
\* returns 0 and Accept returns a new fid, and the two sockets are the ends
\* of a two-way byte channel: what is read on one is, in order and without
\* loss or duplication, what was written on the other (the bytes not yet read
\* are in the pipe between them), and the two directions do not mix.
ChannelDelivers ==
  /\ [](\A a \in Sids :
          sock[a].type = "PEER" =>
            LET b == sock[a].peer IN
            /\ sock[b].sent = Len(sock[a].rcvd) + pipes[sock[a].read_pipe].w_bytes
            /\ \A k \in 1..Len(sock[a].rcvd) : sock[a].rcvd[k] = SocketData(b, k - 1))
  /\ [][\A t \in SockThreads :
          /\ ConnectReturns(t) =>
               /\ sthr'[t].ret = 0
               /\ sock'[sthr[t].sock].type = "PEER"
               /\ PairedIn(sock', sthr[t].sock, sock'[sthr[t].sock].peer)
          /\ AcceptReturns(t) =>
               /\ sthr'[t].ret \in Sids
               /\ sock[sthr'[t].ret].alloc = "none"
               /\ sock'[sthr'[t].ret].type = "PEER"
               /\ PairedIn(sock', sthr'[t].ret, sock'[sthr'[t].ret].peer)]_vars

\* 600 bytes written on one end have been read on the other, through a full
\* pipe, and 3 bytes have gone the other way.
BothDirectionsDelivered ==
  \E a \in Sids :
    /\ sock[a].type = "PEER"
    /\ Len(sock[a].rcvd) = 600
    /\ Len(sock[sock[a].peer].rcvd) = 3
    /\ \A t \in SockThreads : sthr[t].pc = "idle"

(***************************************************************************)
(* The shutdown specification: the threads open sockets on port 1, listen, *)
(* connect without a timeout and accept, and ShutDown is called on any     *)
(* open socket.  Once ShutDown has overwritten a link of a listener's      *)
(* queue no further call uses that queue.                                  *)
(***************************************************************************)
MaxShutCalls == 6

\* The links of the listener's queue are as the list operations left them.
QueueIntact(s) ==
  sock[s].type = "LISTENER" =>
    sock[s].read_pipe = LINK /\ sock[s].write_pipe = LINK

NextShut ==
  \/ /\ scalls < MaxShutCalls
     /\ \/ sys_Socket(1)
        \/ \E s \in Sids : sys_Listen(s)
        \/ \E t \in SockThreads, s \in Sids : QueueIntact(s) /\ sys_Accept(t, s)
        \/ \E t \in SockThreads, s \in Sids :
             /\ PORT_MAP[1] # NIL => QueueIntact(PORT_MAP[1])
             /\ sys_Connect(t, s, 1, FALSE)
        \/ \E s \in Sids,
              mode \in {"SHUTDOWN_READ", "SHUTDOWN_WRITE", "SHUTDOWN_BOTH"} :
             get_fcb(sock, s) /\ sys_ShutDown(s, mode)
  \/ \E t \in SockThreads : sys_Accept_resume(t)
  \/ \E t \in SockThreads : sys_Connect_resume(t)

ShutSpec == Init /\ [][NextShut]_vars

\* C31: ShutDown on an open socket that is not a PEER (UNBOUND or LISTENER)
\* leaves the socket as it was: a listener's request queue, with the links of
\* the queue and of the pending requests, and its req_available are not
\* modified, no pipe is closed and no pipe close runs on anything but the
\* pipes of a PEER.
ShutDownLeavesNonPeer ==
  [][\A s \in Sids, mode \in {"SHUTDOWN_READ", "SHUTDOWN_WRITE", "SHUTDOWN_BOTH"} :
       (get_fcb(sock, s) /\ sock[s].type # "PEER" /\ sys_ShutDown(s, mode)) =>
         /\ sock'[s].type = sock[s].type
         /\ sock'[s].queue = sock[s].queue
         /\ sock'[s].req_available = sock[s].req_available
         /\ sock[s].type = "LISTENER" =>
              /\ sock'[s].read_pipe = sock[s].read_pipe
              /\ sock'[s].write_pipe = sock[s].write_pipe
         /\ req' = req
         /\ pipes' = pipes
         /\ sthr' = sthr]_vars

====
